---------------------------- MODULE Spec2Model ----------------------------
(***************************************************************************)
(* Crawl engine of Xustalis/Crawler: CrawlQueue (core/crawl_queue.py),     *)
(* RequestWorker (workers/request_worker.py) and WorkerPool                *)
(* (workers/worker_pool.py) with the catalog Task row it maintains.        *)
(*                                                                         *)
(* Two specifications share the queue:                                     *)
(*   SpecQ  the CrawlQueue API driven by arbitrary client threads          *)
(*          (put, get, task_done, clear), each call in the steps its       *)
(*          locks delimit;                                                 *)
(*   Spec   one crawl of WorkerPool: the pool's thread handling queued     *)
(*          worker signals, and the RequestWorker loops.                   *)
(*                                                                         *)
(* URLs are naturals; their order is the order of the Python strings they  *)
(* stand for.  0 is the empty string / None.                               *)
(***************************************************************************)
EXTENDS Integers, Sequences, FiniteSets

VARIABLES
    \* ---- CrawlQueue (crawl_queue.py:45-52) ----
    queue,              \* _queue.queue: the queued tasks, in insertion order
    unfinished_tasks,   \* _queue.unfinished_tasks (queue.Queue)
    visited_urls,       \* _visited_urls
    total_queued,       \* _total_queued
    total_completed,    \* _total_completed
    total_failed,       \* _total_failed
    \* ---- client threads of SpecQ ----
    cpc,                \* position of each client inside a queue call
    ctask,              \* the task a client is putting / holds after get
    \* ---- WorkerPool (worker_pool.py:37-61) ----
    site,               \* the deterministic mock site being crawled
    max_depth,          \* WorkerPool.max_depth
    num_workers,        \* WorkerPool.num_workers (clamped)
    phase,              \* "constructed" | "crawling"
    scraped_data,       \* ScrapedData: five category lists
    pool_finished_emitted,
    db_task,            \* the catalog row of this crawl
    clock,              \* datetime.now() as a logical clock
    events,             \* queued signal deliveries to the pool's thread
    mpc,                \* position of the pool's thread inside a handler
    mtask,              \* the (url, depth) the running handler was called with
    mlinks,             \* links the running handler still has to offer
    \* ---- RequestWorker ----
    wpc,                \* position of each worker in run()
    wtask,              \* the task a worker popped
    wbreak,             \* the worker took the "process, then break" branch
    is_running,         \* RequestWorker._is_running
    \* ---- WorkerPool: the worker list and the adaptive-concurrency timer ----
    len_workers,        \* len(self.workers)
    timer_active,       \* adjust_timer exists and is running
    tick_q_size,        \* the queue size the latest _adjust_concurrency read
    \* ---- history (observations, read by no action guard) ----
    accepted,           \* per URL: puts that enqueued it (and so return True)
    rejected,           \* URLs of which a put returned False
    put_calls,          \* number of put calls begun by clients
    cleared,            \* clear() has been called on this queue
    last_get_prios,     \* the priorities queued at the latest get, until a task is reported
    put_log,            \* the tasks accepted by the pool's puts
    handled,            \* URLs whose task_completed handler has run its loop
    finished_count,     \* emissions of pool_finished
    finished_data,      \* scraped_data as it was when pool_finished was emitted
    cancel_called,      \* the user called cancel() during the crawl
    queued_at_cancel,   \* the tasks that were queued when cancel() was called
    \* ---- the catalog (database.py:37-64) ----
    db_resources,       \* the resources table: rows in insertion order, id = index
    \* ---- a caller of the catalog API (SpecDB) ----
    db_calls,           \* calls of DatabaseManager methods made so far
    last_call,          \* the latest call: its arguments and what it returned
    \* ---- a download run: DownloaderWorker (downloader_worker.py:261-378) ----
    batch,              \* the selected resources, with what their server does
    files,              \* the output directory: what each path holds
    old_files,          \* the output directory as the run found it
    dl_threads,         \* QThreadPool.maxThreadCount
    dpc,                \* position of DownloaderWorker.run
    didx,               \* resources the dispatch loop has passed
    dl_task,            \* the catalog row of this download run
    is_cancelled,       \* DownloaderWorker._is_cancelled
    total_tasks,        \* _total_tasks
    completed_tasks,    \* _completed_tasks
    success_count,      \* _success_count
    dl_finished,        \* the finished(success, total) signals emitted
    dl_progress,        \* the progress(done, total) signals emitted
    items,              \* per resource: its DownloadRunnable's locals and history
    \* ---- the controller: MainWindow (main_window.py) ----
    enabled,            \* isEnabled() of the widgets that start and stop runs
    worker_pool,        \* MainWindow.worker_pool: a crawl's number, 0 for None
    downloader,         \* MainWindow.downloader: a download's number, 0 for None
    mw_scraped_data,    \* MainWindow.scraped_data: "none", "empty" or "some"
    has_selection,      \* CategoryPanel.has_selection()
    crawls,             \* every WorkerPool created: what it is doing
    downloads,          \* every DownloaderWorker created: what it is doing
    \* ---- one call of Downloader.download (core/downloader.py:81-187) ----
    server,             \* what requests.get meets: response, header, body
    disk_free,          \* free of shutil.disk_usage, UsageRaises when it raises
    cancel_at,          \* the chunk at which is_cancelled() turns true, 0: never
    cd_pc,              \* position inside download()
    cd_files,           \* output_path and temp_path: what each holds
    downloaded_size,    \* chunks written so far
    resource,           \* the Resource: status, error_message, local_path
    cd_ret,             \* what download() returns
    \* ---- one page through PageParser.parse and the pool's aggregation ----
    page,               \* the response: content type, candidate blocks, quotes
    pa_pc,              \* position: parse, the delivery, the loop over resources
    delivered,          \* the resources task_completed carries
    pa_idx,             \* resources the loop of _on_task_completed has passed
    \* ---- one call of NetworkManager.get (core/network.py:126-182) ----
    nm,                 \* the manager and the call: max_retries, rotation, outcomes
    nm_pc,              \* position inside get()
    attempts,           \* the session.get calls made: the rotation each was sent with
    rotations,          \* calls of _update_headers(rotate_ua=True)
    nm_ret,             \* what get() returns: "response", "none", or "raised"
    \* ---- CrawlQueue(maxsize) and callers of DatabaseManager.add_resource ----
    maxsize,            \* the maxsize of the PriorityQueue, 0: unlimited
    conns               \* per caller of add_resource: its connection and call

qvars == <<queue, unfinished_tasks, visited_urls, total_queued,
           total_completed, total_failed>>
cvars == <<cpc, ctask>>
pvars == <<site, max_depth, num_workers, phase, scraped_data,
           pool_finished_emitted, db_task, clock, events, mpc, mtask, mlinks>>
wvars == <<wpc, wtask, wbreak, is_running>>
hqvars == <<rejected, put_calls, cleared, last_get_prios>>
hpvars == <<put_log, handled, finished_count, finished_data, cancel_called>>
\* what no step of the queue clients changes
dbvars == <<db_resources, db_calls, last_call>>
dvars == <<batch, files, old_files, dl_threads, dpc, didx, dl_task, is_cancelled,
           total_tasks, completed_tasks, success_count, dl_finished,
           dl_progress, items>>
uvars == <<enabled, worker_pool, downloader, mw_scraped_data, has_selection,
           crawls, downloads>>
kvars == <<server, disk_free, cancel_at, cd_pc, cd_files, downloaded_size,
           resource, cd_ret>>
avars == <<page, pa_pc, delivered, pa_idx>>
\* the components that stand beside the crawl and the download run
nvars == <<nm, nm_pc, attempts, rotations, nm_ret>>
ovars == <<avars, nvars, maxsize, conns>>
xvars == <<tick_q_size, dbvars, dvars, uvars, kvars, ovars>>
\* the worker list and its timer
lvars == <<len_workers, timer_active>>
\* what no step of a crawl changes, the start and the cancel apart
cxvars == <<queued_at_cancel, lvars, xvars>>
vars == <<qvars, cvars, pvars, wvars, accepted, hqvars, hpvars, cxvars>>

---------------------------------------------------------------------------
\* Bounds of the model.

\* client threads of SpecQ
NClients == 2
\* URLs the clients put
MaxQUrl == 2
\* put calls the clients begin
MaxPuts == 2
\* largest worker count requested from WorkerPool
MaxWorkers == 2
\* largest max_depth given to WorkerPool
MaxDepthBound == 3
\* largest num_workers given to WorkerPool where only the workers are counted
MaxRequested == 22
\* calls a caller of the catalog API makes
MaxDbCalls == 4
\* the largest maxsize of a bounded CrawlQueue
MaxMaxsize == 2
\* concurrent callers of add_resource, and the calls each makes
NCallers == 2
MaxAdds == 2
\* latest reading of the clock
MaxClock == 3
\* crawls, and downloads, the controller starts
MaxRuns == 3
\* largest counter of a name_k file in the output directory
MaxSuffix == 3
\* threads of the download pool
MaxDlThreads == 2

---------------------------------------------------------------------------
\* Priority (crawl_queue.py:14-18)

HIGH == 1
NORMAL == 2
LOW == 3
Priorities == {HIGH, NORMAL, LOW}

\* CrawlTask (crawl_queue.py:21-27); referer 0 is None
CrawlTask(u, d, p, r) == [url |-> u, depth |-> d, priority |-> p, referer |-> r]
NoTask == CrawlTask(0, 0, 0, 0)

\* dataclass(order=True): tasks compare as (url, depth, priority, referer)
TaskLess(a, b) ==
    \/ a.url < b.url
    \/ a.url = b.url /\ a.depth < b.depth
    \/ a.url = b.url /\ a.depth = b.depth /\ a.priority < b.priority
    \/ a.url = b.url /\ a.depth = b.depth /\ a.priority = b.priority
       /\ a.referer < b.referer

\* a heap of bare tasks, without the priority in front
EntryLessMut(a, b) == TaskLess(a, b)
\* PriorityQueue entries are (task.priority, task) tuples (crawl_queue.py:75)
EntryLess(a, b) ==
    \/ a.priority < b.priority
    \/ a.priority = b.priority /\ TaskLess(a, b)

\* heappop returns the least entry; equal entries are the same value
MinEntries(q) == {i \in 1..Len(q) : \A j \in 1..Len(q) : ~EntryLess(q[j], q[i])}
PopIndex(q) == CHOOSE i \in MinEntries(q) : \A k \in MinEntries(q) : i <= k
RemoveAt(q, i) == SubSeq(q, 1, i - 1) \o SubSeq(q, i + 1, Len(q))

\* a put without the visited check
IsVisitedMut(u) == FALSE
\* put: "if task.url in self._visited_urls: return False"
IsVisited(u) == u \in visited_urls

\* get leaves the visited set alone
VisitedAfterGet(t) == visited_urls

\* clear: queue.clear() leaves unfinished_tasks as it is
UnfinishedAfterClear == unfinished_tasks

Bump(f, u) == [f EXCEPT ![u] = @ + 1]

---------------------------------------------------------------------------
\* CrawlQueue operations, in the steps their locks delimit.

\* put, first lock region (crawl_queue.py:66-71): dedup check, mark visited
PutAdmit(t) ==
    /\ ~IsVisited(t.url)
    /\ visited_urls' = visited_urls \cup {t.url}

\* put, self._queue.put (crawl_queue.py:75): queue.Queue appends the entry
\* and counts it unfinished under its own mutex; maxsize 0 is never Full
PutEnqueue(t) ==
    /\ queue' = Append(queue, t)
    /\ unfinished_tasks' = unfinished_tasks + 1

\* put, second lock region (crawl_queue.py:77-80)
PutCount ==
    total_queued' = total_queued + 1

\* get (crawl_queue.py:96-98): pops the least entry; the visited set stays
GetPop(t) ==
    /\ queue # << >>
    /\ t = queue[PopIndex(queue)]
    /\ queue' = RemoveAt(queue, PopIndex(queue))
    /\ visited_urls' = VisitedAfterGet(t)

\* task_done, lock region (crawl_queue.py:109-113)
TaskDoneStats(success) ==
    /\ total_completed' = IF success THEN total_completed + 1 ELSE total_completed
    /\ total_failed' = IF success THEN total_failed ELSE total_failed + 1

\* task_done, self._queue.task_done() (crawl_queue.py:115); queue.Queue raises
\* ValueError below zero, which no caller here reaches
TaskDoneQueue ==
    /\ unfinished_tasks > 0
    /\ unfinished_tasks' = unfinished_tasks - 1

\* is_empty / size / get_stats()['pending'] (crawl_queue.py:117-123, 137)
QueueIsEmpty == queue = << >>
QueueSize == Len(queue)

---------------------------------------------------------------------------
\* SpecQ: client threads calling the CrawlQueue API.

Clients == 1..NClients
Callers == 1..NCallers
QUrls == 1..MaxQUrl

\* a client begins put(task) and is rejected by the dedup check
CPutRejected(c, t) ==
    /\ cpc[c] = "idle" /\ put_calls < MaxPuts
    /\ IsVisited(t.url)
    /\ put_calls' = put_calls + 1
    /\ rejected' = rejected \cup {t.url}
    /\ UNCHANGED <<qvars, cvars, pvars, wvars, accepted, cleared,
                   last_get_prios, hpvars>>

\* a client begins put(task) and passes the dedup check
CPutAdmit(c, t) ==
    /\ cpc[c] = "idle" /\ put_calls < MaxPuts
    /\ PutAdmit(t)
    /\ cpc' = [cpc EXCEPT ![c] = "put_enqueue"]
    /\ ctask' = [ctask EXCEPT ![c] = t]
    /\ put_calls' = put_calls + 1
    /\ UNCHANGED <<queue, unfinished_tasks, total_queued, total_completed,
                   total_failed, pvars, wvars, accepted, rejected, cleared,
                   last_get_prios, hpvars>>

\* from here the call can only return True
CPutEnqueue(c) ==
    /\ cpc[c] = "put_enqueue"
    /\ PutEnqueue(ctask[c])
    /\ cpc' = [cpc EXCEPT ![c] = "put_count"]
    /\ ctask' = [ctask EXCEPT ![c] = NoTask]
    /\ accepted' = Bump(accepted, ctask[c].url)
    /\ UNCHANGED <<visited_urls, total_queued, total_completed, total_failed,
                   pvars, wvars, hqvars, hpvars>>

\* the put returns True
CPutCount(c) ==
    /\ cpc[c] = "put_count"
    /\ PutCount
    /\ cpc' = [cpc EXCEPT ![c] = "idle"]
    /\ UNCHANGED <<queue, unfinished_tasks, visited_urls, total_completed,
                   total_failed, ctask, pvars, wvars, accepted, hqvars, hpvars>>

\* get returning a task (a get on an empty queue times out and returns None,
\* which changes nothing)
CGet(c) ==
    /\ cpc[c] = "idle"
    /\ \E t \in {queue[i] : i \in 1..Len(queue)} :
          /\ GetPop(t)
          /\ ctask' = [ctask EXCEPT ![c] = t]
    /\ cpc' = [cpc EXCEPT ![c] = "holding"]
    /\ last_get_prios' = {queue[i].priority : i \in 1..Len(queue)}
    /\ UNCHANGED <<unfinished_tasks, total_queued, total_completed, total_failed,
                   pvars, wvars, accepted, rejected, put_calls, cleared, hpvars>>

CTaskDoneStats(c, success) ==
    /\ cpc[c] = "holding"
    /\ TaskDoneStats(success)
    /\ cpc' = [cpc EXCEPT ![c] = "done_queue"]
    /\ ctask' = [ctask EXCEPT ![c] = NoTask]
    /\ last_get_prios' = {}
    /\ UNCHANGED <<queue, unfinished_tasks, visited_urls, total_queued,
                   pvars, wvars, accepted, rejected, put_calls, cleared, hpvars>>

CTaskDoneQueue(c) ==
    /\ cpc[c] = "done_queue"
    /\ TaskDoneQueue
    /\ cpc' = [cpc EXCEPT ![c] = "idle"]
    /\ UNCHANGED <<queue, visited_urls, total_queued, total_completed,
                   total_failed, ctask, pvars, wvars, accepted, hqvars, hpvars>>

\* clear, first region (crawl_queue.py:143-144): drops the queued entries
CClearQueue(c) ==
    /\ cpc[c] = "idle" /\ ~cleared
    /\ queue' = << >>
    /\ unfinished_tasks' = UnfinishedAfterClear
    /\ cpc' = [cpc EXCEPT ![c] = "clear_stats"]
    /\ cleared' = TRUE
    /\ UNCHANGED <<visited_urls, total_queued, total_completed, total_failed,
                   ctask, pvars, wvars, accepted, rejected, put_calls,
                   last_get_prios, hpvars>>

\* clear, second region (crawl_queue.py:146-150)
CClearStats(c) ==
    /\ cpc[c] = "clear_stats"
    /\ visited_urls' = {}
    /\ total_queued' = 0
    /\ total_completed' = 0
    /\ total_failed' = 0
    /\ cpc' = [cpc EXCEPT ![c] = "idle"]
    /\ UNCHANGED <<queue, unfinished_tasks, ctask, pvars, wvars, accepted,
                   hqvars, hpvars>>

\* ---- CrawlQueue(maxsize > 0) ----

\* queue.PriorityQueue: "0 < maxsize <= qsize"
QueueFull == maxsize > 0 /\ Len(queue) >= maxsize

\* self._queue.put finds room (at once, or while it blocks)
BPutEnqueue(c) ==
    /\ ~QueueFull
    /\ CPutEnqueue(c)

\* self._queue.put raises queue.Full (block=False, or the timeout has run
\* out) and put returns False (crawl_queue.py:82-83)
BPutFull(c) ==
    /\ cpc[c] = "put_enqueue"
    /\ QueueFull
    /\ cpc' = [cpc EXCEPT ![c] = "idle"]
    /\ ctask' = [ctask EXCEPT ![c] = NoTask]
    /\ UNCHANGED <<qvars, pvars, wvars, accepted, hqvars, hpvars>>

---------------------------------------------------------------------------
\* The deterministic mock fetcher: what PageParser.parse(url) returns on each
\* mock site.  Page URLs are 1..4, resource URLs 11..16.

PageUrls == {1, 2, 3, 4}

\* Resource (models.py:57-75), the fields the pool reads
Resource(u, ty, ext) == [url |-> u, resource_type |-> ty, file_extension |-> ext]

\* a gallery: a resource shared by two pages, a link back to the seed, a page
\* whose parsing raises
Gallery ==
    [seed |-> 2,
     links |-> [u \in PageUrls |->
                  CASE u = 1 -> <<3, 4>>
                    [] u = 2 -> <<1, 3>>
                    [] u = 3 -> <<2>>
                    [] OTHER -> << >>],
     resources |-> [u \in PageUrls |->
                  CASE u = 1 -> <<Resource(11, "image", ".jpg"), Resource(12, "video", ".mp4")>>
                    [] u = 2 -> <<Resource(11, "image", ".jpg")>>
                    [] u = 4 -> <<Resource(13, "m3u8", ".m3u8")>>
                    [] OTHER -> << >>],
     outcome |-> [u \in PageUrls |-> IF u = 3 THEN "raise" ELSE "ok"]]

\* a quotes page (parser.py:336-361: every quote carries the page URL), a
\* sniffed script JSON without URL (parser.py:417-423), and a page of files
QuotesSite ==
    [seed |-> 1,
     links |-> [u \in PageUrls |-> IF u = 1 THEN <<2>> ELSE << >>],
     resources |-> [u \in PageUrls |->
                  CASE u = 1 -> <<Resource(1, "rich_text", ""), Resource(1, "rich_text", ""),
                                  Resource(0, "json_data", "")>>
                    [] u = 2 -> <<Resource(14, "unknown", ".pdf"), Resource(15, "unknown", ".zip"),
                                  Resource(16, "audio", ".mp3")>>
                    [] OTHER -> << >>],
     outcome |-> [u \in PageUrls |-> "ok"]]

\* a seed whose fetch fails: NetworkManager.get returns None (parser.py:60-62)
DeadSite ==
    [seed |-> 1,
     links |-> [u \in PageUrls |-> << >>],
     resources |-> [u \in PageUrls |-> << >>],
     outcome |-> [u \in PageUrls |-> "none"]]

Sites == {Gallery, QuotesSite, DeadSite}

\* PageParser.parse (parser.py:47-71) over the mock fetcher
ParseRaises(u) == site.outcome[u] = "raise"
ParseResources(u) == IF site.outcome[u] = "ok" THEN site.resources[u] ELSE << >>
ParseLinks(u) == IF site.outcome[u] = "ok" THEN site.links[u] ELSE << >>

---------------------------------------------------------------------------
\* ScrapedData and the pool's aggregation (worker_pool.py:158-172)

Categories == {"images", "videos", "audios", "m3u8_streams", "documents"}
EmptyData == [c \in Categories |-> << >>]

DocExtensions == {".pdf", ".doc", ".docx", ".xls", ".xlsx", ".ppt", ".pptx", ".txt"}

\* the list a resource is appended to, "none" when it is dropped
CategoryOf(res) ==
    CASE res.resource_type = "image" -> "images"
      [] res.resource_type = "video" -> "videos"
      [] res.resource_type = "audio" -> "audios"
      [] res.resource_type = "m3u8" -> "m3u8_streams"
      [] res.resource_type \in {"text", "json_data", "rich_text"} -> "documents"
      [] OTHER -> IF res.file_extension \in DocExtensions THEN "documents" ELSE "none"

AppendResource(sd, res) ==
    IF CategoryOf(res) = "none" THEN sd
    ELSE [sd EXCEPT ![CategoryOf(res)] = Append(@, res)]

RECURSIVE Aggregate(_, _)
Aggregate(sd, rs) ==
    IF rs = << >> THEN sd
    ELSE Aggregate(AppendResource(sd, Head(rs)), Tail(rs))

\* ScrapedData.total_count / the sum in _finalize_pool (worker_pool.py:238-240)
TotalCount(sd) ==
    Len(sd["images"]) + Len(sd["videos"]) + Len(sd["m3u8_streams"])
    + Len(sd["documents"]) + Len(sd["audios"])

---------------------------------------------------------------------------
\* WorkerPool

\* "if i >= 20: break" / min(max(1, num_workers), 20)
WorkerLimit == 20
\* a pool that takes the requested count as it is
ClampWorkersMut(n) == n
\* min(max(1, num_workers), 20) (worker_pool.py:47)
ClampWorkers(n) ==
    IF n < 1 THEN 1 ELSE IF n > WorkerLimit THEN WorkerLimit ELSE n

WorkerIds == 1..MaxWorkers
Workers == 1..num_workers

NoRow == [status |-> "none", created_at |-> 0, finished_at |-> 0,
          total_items |-> 0, downloaded_items |-> 0]

\* a gate that also follows the links of pages at max_depth
DepthGateMut(depth) == depth <= max_depth
\* "if depth < self.max_depth" (worker_pool.py:176)
DepthGate(depth) == depth < max_depth

\* a finish test that does not read unfinished_tasks
FinishConditionMut == QueueIsEmpty /\ QueueSize = 0
\* _check_finish_condition (worker_pool.py:197-210).  The three reads are
\* taken at one instant: between them only workers act, which can only shrink
\* the queue and the counter, so every outcome of the separate reads is the
\* outcome of reading all three at the instant of the last one made.
FinishCondition == QueueIsEmpty /\ QueueSize = 0 /\ unfinished_tasks = 0

\* CrawlQueue.put as the pool's thread calls it: the visited set and
\* total_queued are touched by this thread alone during a crawl, so the three
\* regions of put are one step for every other thread.  TRUE iff accepted.
PoolPut(t) ==
    IF IsVisited(t.url)
    THEN /\ UNCHANGED <<queue, unfinished_tasks, visited_urls, total_queued,
                        accepted, put_log>>
    ELSE /\ PutAdmit(t) /\ PutEnqueue(t) /\ PutCount
         /\ accepted' = Bump(accepted, t.url)
         /\ put_log' = put_log \cup {t}

\* cancel (worker_pool.py:250-262): worker.stop() on every worker
StopWorkers == is_running' = [w \in WorkerIds |-> FALSE]

\* _spawn_workers(count) (worker_pool.py:104-133): the length of self.workers
\* after the loop, which appends for i = current, current + 1, ... and breaks
\* at the first i >= 20
SpawnedLen(current, count) ==
    current + Cardinality({i \in current..(current + count - 1) : i < WorkerLimit})

\* start_crawl(seed_url, auto_concurrency) (worker_pool.py:63-99)
StartCrawlWith(auto_concurrency) ==
    /\ phase = "constructed"
    /\ len_workers' = SpawnedLen(len_workers, num_workers)
    /\ timer_active' = auto_concurrency
    /\ phase' = "crawling"
    /\ scraped_data' = EmptyData
    /\ db_task' = [NoRow EXCEPT !.status = "scanning", !.created_at = clock]
    /\ clock' = clock + 1
    /\ PoolPut(CrawlTask(site.seed, 1, HIGH, 0))
    /\ pool_finished_emitted' = FALSE
    /\ wpc' = [w \in WorkerIds |-> IF w \in Workers THEN "loop" ELSE "absent"]
    /\ is_running' = [w \in WorkerIds |-> w \in Workers]
    /\ UNCHANGED <<total_completed, total_failed, cvars, site, max_depth,
                   num_workers, events, mpc, mtask, mlinks, wtask, wbreak,
                   hqvars, handled, finished_count, finished_data, cancel_called>>

\* start_crawl as MainWindow._start_analysis calls it (main_window.py:372):
\* auto_concurrency keeps its default, no timer is created
StartCrawl == StartCrawlWith(FALSE)

\* the queue size above which a tick adds workers, and how many it adds
ScaleUpQueueSize == 50
ScaleUpStep == 5
Min(a, b) == IF a <= b THEN a ELSE b

\* _adjust_concurrency (worker_pool.py:135-147), a timer tick that reads
\* crawl_queue.size() = q_size
AdjustConcurrency(q_size) ==
    /\ phase = "crawling" /\ timer_active
    /\ tick_q_size' = q_size
    /\ IF q_size > ScaleUpQueueSize /\ len_workers < WorkerLimit
       THEN LET new_workers == Min(ScaleUpStep, WorkerLimit - len_workers)
            IN  len_workers' = IF new_workers > 0
                               THEN SpawnedLen(len_workers, new_workers)
                               ELSE len_workers
       ELSE len_workers' = len_workers
    /\ UNCHANGED <<qvars, cvars, pvars, wvars, accepted, hqvars, hpvars,
                   queued_at_cancel, timer_active, dbvars, dvars, uvars,
                   kvars, ovars>>

\* adjust_timer.stop() in cancel and _finalize_pool (worker_pool.py:219-220,
\* 252-253)
StopTimer ==
    /\ phase = "crawling" /\ timer_active
    /\ timer_active' = FALSE
    /\ UNCHANGED <<qvars, cvars, pvars, wvars, accepted, hqvars, hpvars,
                   queued_at_cancel, len_workers, xvars>>

\* _check_finish_condition and _finalize_pool (worker_pool.py:194-248)
CheckFinish ==
    IF FinishCondition /\ ~pool_finished_emitted
    THEN /\ pool_finished_emitted' = TRUE
         /\ db_task' = [db_task EXCEPT !.status = "scanned", !.finished_at = clock,
                                       !.total_items = TotalCount(scraped_data),
                                       !.downloaded_items = 0]
         /\ clock' = clock + 1
         /\ finished_count' = finished_count + 1
         /\ finished_data' = scraped_data
         /\ StopWorkers
    ELSE UNCHANGED <<pool_finished_emitted, db_task, clock, finished_count,
                     finished_data, is_running>>

\* the pool's thread takes the next queued task_completed delivery:
\* _on_task_completed up to the loop over links (worker_pool.py:154-175)
OnTaskCompleted ==
    /\ mpc = "idle" /\ events # << >>
    /\ Head(events).kind = "completed"
    /\ events' = Tail(events)
    /\ scraped_data' = Aggregate(scraped_data, ParseResources(Head(events).url))
    /\ mtask' = [url |-> Head(events).url, depth |-> Head(events).depth]
    /\ mlinks' = ParseLinks(Head(events).url)
    /\ mpc' = "links"
    /\ UNCHANGED <<qvars, cvars, site, max_depth, num_workers, phase,
                   pool_finished_emitted, db_task, clock, wvars, accepted,
                   hqvars, hpvars>>

\* one iteration of "for link in links" (worker_pool.py:175-179)
OfferLink ==
    /\ mpc = "links" /\ mlinks # << >>
    /\ mlinks' = Tail(mlinks)
    /\ IF DepthGate(mtask.depth)
       THEN PoolPut(CrawlTask(Head(mlinks), mtask.depth + 1, NORMAL, mtask.url))
       ELSE UNCHANGED <<queue, unfinished_tasks, visited_urls, total_queued,
                        accepted, put_log>>
    /\ UNCHANGED <<total_completed, total_failed, cvars, site, max_depth,
                   num_workers, phase, scraped_data, pool_finished_emitted,
                   db_task, clock, events, mpc, mtask, wvars, hqvars, handled,
                   finished_count, finished_data, cancel_called>>

\* the end of _on_task_completed (worker_pool.py:181-186)
CompletedCheck ==
    /\ mpc = "links" /\ mlinks = << >>
    /\ mpc' = "idle"
    /\ handled' = handled \cup {mtask.url}
    /\ CheckFinish
    /\ UNCHANGED <<qvars, cvars, site, max_depth, num_workers, phase,
                   scraped_data, events, mtask, mlinks, wpc, wtask, wbreak,
                   accepted, hqvars, put_log, cancel_called>>

\* _on_task_failed (worker_pool.py:188-192)
OnTaskFailed ==
    /\ mpc = "idle" /\ events # << >>
    /\ Head(events).kind = "failed"
    /\ events' = Tail(events)
    /\ CheckFinish
    /\ UNCHANGED <<qvars, cvars, site, max_depth, num_workers, phase,
                   scraped_data, mpc, mtask, mlinks, wpc, wtask, wbreak,
                   accepted, hqvars, put_log, handled, cancel_called>>

\* the user cancels the running crawl: MainWindow._cancel_task
\* (main_window.py:510-515) calls WorkerPool.cancel on the pool's thread
UserCancel ==
    /\ mpc = "idle" /\ phase = "crawling"
    /\ ~pool_finished_emitted /\ ~cancel_called
    /\ StopWorkers
    /\ cancel_called' = TRUE
    /\ queued_at_cancel' = {queue[i] : i \in 1..Len(queue)}
    /\ UNCHANGED <<qvars, cvars, pvars, wpc, wtask, wbreak, accepted, hqvars,
                   put_log, handled, finished_count, finished_data>>

---------------------------------------------------------------------------
\* RequestWorker.run (request_worker.py:34-79)

\* "while self._is_running", and the teardown when it is false
WorkerLoop(w) ==
    /\ wpc[w] = "loop"
    /\ wpc' = [wpc EXCEPT ![w] = IF is_running[w] THEN "get" ELSE "stopped"]
    /\ UNCHANGED <<qvars, cvars, pvars, wtask, wbreak, is_running, accepted,
                   hqvars, hpvars>>

\* crawl_queue.get(block=True, timeout=0.5) returns a task
WorkerGet(w) ==
    /\ wpc[w] = "get"
    /\ \E t \in {queue[i] : i \in 1..Len(queue)} :
          /\ GetPop(t)
          /\ wtask' = [wtask EXCEPT ![w] = t]
    /\ wpc' = [wpc EXCEPT ![w] = "got"]
    /\ UNCHANGED <<unfinished_tasks, total_queued, total_completed, total_failed,
                   cvars, pvars, wbreak, is_running, accepted, hqvars, hpvars>>

\* a get without timeout: it keeps waiting on an empty queue
WorkerGetTimeoutMut(w) ==
    /\ wpc[w] = "get" /\ queue = << >>
    /\ wpc' = wpc
    /\ UNCHANGED <<qvars, cvars, pvars, wtask, wbreak, is_running, accepted,
                   hqvars, hpvars>>

\* the get times out and returns None (request_worker.py:50-58)
WorkerGetTimeout(w) ==
    /\ wpc[w] = "get" /\ queue = << >>
    /\ wpc' = [wpc EXCEPT ![w] = IF QueueIsEmpty /\ ~is_running[w]
                                 THEN "stopped" ELSE "loop"]
    /\ UNCHANGED <<qvars, cvars, pvars, wtask, wbreak, is_running, accepted,
                   hqvars, hpvars>>

\* a worker that drops the task it popped when the stop flag is already set
WorkerProcessMut(w) ==
    /\ wpc[w] = "got"
    /\ wbreak' = [wbreak EXCEPT ![w] = ~is_running[w]]
    /\ IF is_running[w]
       THEN /\ events' = Append(events,
                    [kind |-> IF ParseRaises(wtask[w].url) THEN "failed" ELSE "completed",
                     url |-> wtask[w].url, depth |-> wtask[w].depth])
            /\ wpc' = [wpc EXCEPT ![w] = "done_stats"]
       ELSE /\ events' = events
            /\ wpc' = [wpc EXCEPT ![w] = "stopped"]
    /\ UNCHANGED <<qvars, cvars, site, max_depth, num_workers, phase,
                   scraped_data, pool_finished_emitted, db_task, clock, mpc,
                   mtask, mlinks, wtask, is_running, accepted, hqvars, hpvars>>

\* the check of line 60, then _process_task up to the emission
\* (request_worker.py:60-66, 84-101, 106-112).  The emission is a queued
\* delivery to the pool's thread (worker_pool.py:121-122).
WorkerProcess(w) ==
    /\ wpc[w] = "got"
    /\ wbreak' = [wbreak EXCEPT ![w] = ~is_running[w]]
    /\ events' = Append(events,
                    [kind |-> IF ParseRaises(wtask[w].url) THEN "failed" ELSE "completed",
                     url |-> wtask[w].url, depth |-> wtask[w].depth])
    /\ wpc' = [wpc EXCEPT ![w] = "done_stats"]
    /\ UNCHANGED <<qvars, cvars, site, max_depth, num_workers, phase,
                   scraped_data, pool_finished_emitted, db_task, clock, mpc,
                   mtask, mlinks, wtask, is_running, accepted, hqvars, hpvars>>

\* crawl_queue.task_done(success), lock region
WorkerTaskDoneStats(w) ==
    /\ wpc[w] = "done_stats"
    /\ TaskDoneStats(~ParseRaises(wtask[w].url))
    /\ wpc' = [wpc EXCEPT ![w] = "done_queue"]
    /\ UNCHANGED <<queue, unfinished_tasks, visited_urls, total_queued, cvars,
                   pvars, wtask, wbreak, is_running, accepted, hqvars, hpvars>>

\* crawl_queue.task_done(success), queue.task_done(); then the loop or the break
WorkerTaskDoneQueue(w) ==
    /\ wpc[w] = "done_queue"
    /\ TaskDoneQueue
    /\ wpc' = [wpc EXCEPT ![w] = IF wbreak[w] THEN "stopped" ELSE "loop"]
    /\ wtask' = [wtask EXCEPT ![w] = NoTask]
    /\ UNCHANGED <<queue, visited_urls, total_queued, total_completed,
                   total_failed, cvars, pvars, wbreak, is_running, accepted,
                   hqvars, hpvars>>

---------------------------------------------------------------------------
\* The catalog: DatabaseManager (database.py).  The tasks table holds the
\* row of task id 1 in db_task; status "none" is no row.  updated_at of a
\* resource row is not followed.

\* the id create_task returns for the first task, and an id without a row
TaskId == 1
NoSuchTaskId == 2

\* create_task (database.py:88-100)
TaskCreated(now) == [NoRow EXCEPT !.status = "running", !.created_at = now]

\* an update_task_status that never writes finished_at
TaskStatusUpdatedMut(row, status, finished, now) == [row EXCEPT !.status = status]
\* update_task_status (database.py:102-118) on an existing row
TaskStatusUpdated(row, status, finished, now) ==
    IF finished
    THEN [row EXCEPT !.status = status, !.finished_at = now]
    ELSE [row EXCEPT !.status = status]

\* update_task_progress (database.py:120-130) on an existing row
TaskProgressUpdated(row, downloaded, total) ==
    [row EXCEPT !.downloaded_items = downloaded, !.total_items = total]

\* get_task_details (database.py:226-236): what it reports of status and
\* finished_at
GetTaskDetails(task_id) ==
    IF task_id = TaskId /\ db_task.status # "none"
    THEN [status |-> db_task.status, finished_at |-> db_task.finished_at]
    ELSE [status |-> "none", finished_at |-> 0]

\* a resources row as INSERT leaves it (database.py:175-181); 0 is NULL
ResourceRow(task_id, url, resource_type) ==
    [task_id |-> task_id, url |-> url, resource_type |-> resource_type,
     status |-> "pending", local_path |-> 0, file_size |-> 0, error_msg |-> 0]

\* an add_resource without the existence check
ResourceExistsMut(table, task_id, url) == FALSE
\* "SELECT id FROM resources WHERE task_id = ? AND url = ?" finds a row
ResourceExists(table, task_id, url) ==
    \E i \in 1..Len(table) : table[i].task_id = task_id /\ table[i].url = url

\* add_resource (database.py:156-186): the table after the call.  For a
\* Resource object with an empty url, "getattr(..) or resource_obj.get(..)"
\* raises AttributeError, which is caught.
AddResourceTable(table, task_id, res) ==
    IF res.url = 0 \/ ResourceExists(table, task_id, res.url)
    THEN table
    ELSE Append(table, ResourceRow(task_id, res.url, res.resource_type))

\* add_resource: what it returns, lastrowid or -1
AddResourceReturn(table, task_id, res) ==
    IF res.url = 0 \/ ResourceExists(table, task_id, res.url)
    THEN -1
    ELSE Len(table) + 1

\* update_resource_status (database.py:188-214): local_path, file_size and
\* error_msg are written only when the argument is truthy / positive
UpdateResourceTable(table, task_id, url, status, local_path, file_size, error) ==
    [i \in 1..Len(table) |->
        IF table[i].task_id = task_id /\ table[i].url = url
        THEN [table[i] EXCEPT
                 !.status = status,
                 !.local_path = IF local_path # 0 THEN local_path ELSE @,
                 !.file_size = IF file_size > 0 THEN file_size ELSE @,
                 !.error_msg = IF error # 0 THEN error ELSE @]
        ELSE table[i]]

\* ---- a single caller driving the API ----

DbUnchanged ==
    UNCHANGED <<qvars, cvars, site, max_depth, num_workers, phase, scraped_data,
                pool_finished_emitted, events, mpc, mtask, mlinks, wvars,
                accepted, hqvars, hpvars, queued_at_cancel, lvars, tick_q_size,
                dvars, uvars, kvars, ovars>>

DbCall(op, task_id, url, status, finished, ret) ==
    /\ db_calls < MaxDbCalls
    /\ db_calls' = db_calls + 1
    /\ last_call' = [op |-> op, task_id |-> task_id, url |-> url,
                     status |-> status, finished |-> finished, ret |-> ret]

\* time passes between two calls
DbTick ==
    /\ clock < MaxClock
    /\ clock' = clock + 1
    /\ UNCHANGED <<db_task, db_resources, db_calls, last_call>>
    /\ DbUnchanged

DbCreateTask ==
    /\ db_task.status = "none"
    /\ db_task' = TaskCreated(clock)
    /\ DbCall("create_task", TaskId, 0, "running", FALSE, TaskId)
    /\ UNCHANGED <<clock, db_resources>>
    /\ DbUnchanged

DbUpdateTaskStatus(task_id, status, finished) ==
    /\ db_task' = IF task_id = TaskId /\ db_task.status # "none"
                  THEN TaskStatusUpdated(db_task, status, finished, clock)
                  ELSE db_task
    /\ DbCall("update_task_status", task_id, 0, status, finished, 0)
    /\ UNCHANGED <<clock, db_resources>>
    /\ DbUnchanged

DbAddResource(task_id, res) ==
    /\ db_resources' = AddResourceTable(db_resources, task_id, res)
    /\ DbCall("add_resource", task_id, res.url, "pending", FALSE,
              AddResourceReturn(db_resources, task_id, res))
    /\ UNCHANGED <<clock, db_task>>
    /\ DbUnchanged

\* ---- add_resource by concurrent callers, each on its own connection ----

ArUnchanged ==
    UNCHANGED <<qvars, cvars, pvars, wvars, accepted, hqvars, hpvars,
                queued_at_cancel, lvars, tick_q_size, db_calls, last_call,
                dvars, uvars, kvars, avars, nvars, maxsize>>

\* the SELECT of add_resource on the caller's connection
\* (database.py:167-171); no transaction is open after it
ArSelect(c, task_id, res) ==
    /\ conns[c].pc = "idle" /\ conns[c].calls < MaxAdds
    /\ conns' = [conns EXCEPT ![c] =
                    [pc |-> IF ResourceExists(db_resources, task_id, res.url)
                            THEN "exists" ELSE "insert",
                     task_id |-> task_id, url |-> res.url,
                     resource_type |-> res.resource_type,
                     ret |-> 0, calls |-> @.calls + 1]]
    /\ UNCHANGED db_resources
    /\ ArUnchanged

\* "if cursor.fetchone(): return -1" (database.py:172-173)
ArExists(c) ==
    /\ conns[c].pc = "exists"
    /\ conns' = [conns EXCEPT ![c].pc = "idle", ![c].ret = -1]
    /\ UNCHANGED db_resources
    /\ ArUnchanged

\* the INSERT and the commit (database.py:175-183): the writers take the
\* database's write lock in turn, the table has no UNIQUE constraint
\* (database.py:50-64)
ArInsert(c) ==
    /\ conns[c].pc = "insert"
    /\ db_resources' = Append(db_resources,
                             ResourceRow(conns[c].task_id, conns[c].url,
                                         conns[c].resource_type))
    /\ conns' = [conns EXCEPT ![c].pc = "idle", ![c].ret = Len(db_resources) + 1]
    /\ ArUnchanged

\* update_resource_status as DownloadRunnable.run calls it for a completed
\* and for a failed item (downloader_worker.py:172-180); path 1, error 1
DbUpdateResourceStatus(task_id, url, ok) ==
    /\ db_resources' = UpdateResourceTable(db_resources, task_id, url,
                           IF ok THEN "completed" ELSE "failed",
                           IF ok THEN 1 ELSE 0, IF ok THEN 5 ELSE 0,
                           IF ok THEN 0 ELSE 1)
    /\ DbCall("update_resource_status", task_id, url,
              IF ok THEN "completed" ELSE "failed", FALSE, 0)
    /\ UNCHANGED <<clock, db_task>>
    /\ DbUnchanged

---------------------------------------------------------------------------
\* A download run: DownloadRunnable (downloader_worker.py:34-259).
\*
\* A selected resource is given with what its server and the disk do for it:
\*   name     the filename _get_filename derives (several URLs can derive one)
\*   content  the resource carries its text (resource.content)
\*   size     the length of the body, which is the content-length reported
\*   net      "ok" | "down" (every GET raises) | "drop" (every GET breaks off
\*            after part of the body) | "flaky" (the first GET raises)
\*   disk     "ok" | "full" (_check_disk_space returns False)
\*   head     "ok" | "error" (the HEAD request raises)

DlItem(url, resource_type, name, content, size, net, disk, head) ==
    [url |-> url, resource_type |-> resource_type, name |-> name,
     content |-> content, size |-> size, net |-> net, disk |-> disk,
     head |-> head]

\* the id create_task returns to the download run: the crawl that found the
\* resources holds row 1
DlTaskId == 2

\* paths of the output directory: name, name_k, and their ".tmp" siblings
FileNames == {1, 2}
Path(name, k) == <<name, k, FALSE>>
TempPath(path) == <<path[1], path[2], TRUE>>
AllPaths == FileNames \X (0..MaxSuffix) \X BOOLEAN
NoPath == <<0, 0, FALSE>>
\* str(filepath), as the catalog stores it; 0 is NULL
PathStr(path) == 10 * path[1] + path[2]

\* what a path holds: size 0 and by = -1 is "does not exist"; by is the
\* item that wrote it, 0 for a file older than the run; whole is false for a
\* body that broke off
NoFile == [size |-> 0, by |-> -1, whole |-> FALSE]
FileOf(size, by, whole) == [size |-> size, by |-> by, whole |-> whole]
Exists(path) == files[path] # NoFile

\* _ensure_unique (downloader_worker.py:238-249)
EnsureUnique(name) ==
    IF ~Exists(Path(name, 0)) THEN Path(name, 0)
    ELSE Path(name, CHOOSE k \in 1..MaxSuffix :
                        /\ ~Exists(Path(name, k))
                        /\ \A j \in 1..(k - 1) : Exists(Path(name, j)))

\* retry configuration (downloader_worker.py:60-61)
max_retries == 3
retry_delay == 2

\* error messages: 0 is None
ErrNone == 0
ErrTransport == 1
ErrDiskSpace == 2
ErrRename == 3
SkippedCached == 4

NoItem == [pc |-> "new", attempt |-> 0, filepath |-> NoPath, success |-> FALSE,
           error_msg |-> ErrNone, file_size |-> 0, waits |-> << >>,
           gets |-> 0, heads |-> 0, tries |-> 0, seen |-> 0]

Items == 1..Len(batch)
Running == {i \in Items : items[i].pc \notin {"new", "queued", "dropped", "done"}}
SetItem(i, fields) == items' = [items EXCEPT ![i] = fields]

DlItemFrame ==
    UNCHANGED <<qvars, cvars, pvars, wvars, accepted, hqvars, hpvars,
                queued_at_cancel, lvars, tick_q_size, db_calls, last_call,
                batch, old_files, dl_threads, dpc, didx, dl_task, is_cancelled,
                total_tasks, dl_finished, uvars, kvars, ovars>>
DlItemUnchanged == DlItemFrame /\ UNCHANGED dl_progress

\* a pool thread takes the runnable from the pool's queue
ItemStart(i) ==
    /\ items[i].pc = "queued"
    /\ Cardinality(Running) < dl_threads
    /\ SetItem(i, [items[i] EXCEPT !.pc = "filename"])
    /\ UNCHANGED <<files, db_resources, completed_tasks, success_count>>
    /\ DlItemUnchanged

\* top of an attempt (downloader_worker.py:63-78): the target path, and the
\* whole write when the resource carries its content
ItemFilename(i) ==
    /\ items[i].pc = "filename"
    /\ LET filepath == EnsureUnique(batch[i].name)
       IN  IF batch[i].content
           THEN /\ files' = [files EXCEPT ![filepath] = FileOf(batch[i].size, i, TRUE)]
                /\ SetItem(i, [items[i] EXCEPT !.pc = "report", !.filepath = filepath,
                                                !.tries = @ + 1, !.success = TRUE,
                                                !.file_size = batch[i].size])
           ELSE /\ files' = files
                /\ SetItem(i, [items[i] EXCEPT !.pc = "cache", !.filepath = filepath,
                                                !.tries = @ + 1])
    /\ UNCHANGED <<db_resources, completed_tasks, success_count>>
    /\ DlItemUnchanged

\* the smart skip (downloader_worker.py:82-109): a HEAD request when the
\* target exists; on equal sizes the row is updated, the callback runs and
\* run returns
ItemCache(i) ==
    /\ items[i].pc = "cache"
    /\ LET filepath == items[i].filepath
           local_size == files[filepath].size
           asks == Exists(filepath) /\ local_size > 0
           remote_size == batch[i].size
           skip == /\ asks /\ batch[i].head = "ok"
                   /\ remote_size > 0 /\ remote_size = local_size
       IN  IF skip
           THEN /\ SetItem(i, [items[i] EXCEPT !.pc = "callback", !.heads = @ + 1,
                                                !.success = TRUE,
                                                !.file_size = local_size,
                                                !.error_msg = SkippedCached])
                /\ db_resources' = UpdateResourceTable(db_resources, DlTaskId,
                                       batch[i].url, "completed",
                                       PathStr(filepath), local_size,
                                       SkippedCached)
           ELSE /\ SetItem(i, [items[i] EXCEPT !.pc = "disk",
                                                !.heads = IF asks THEN @ + 1 ELSE @])
                /\ db_resources' = db_resources
    /\ UNCHANGED <<files, completed_tasks, success_count>>
    /\ DlItemUnchanged

\* the pre-flight check (downloader_worker.py:129-131, 251-259)
ItemDiskCheck(i) ==
    /\ items[i].pc = "disk"
    /\ IF batch[i].disk = "full"
       THEN SetItem(i, [items[i] EXCEPT !.pc = "except", !.error_msg = ErrDiskSpace])
       ELSE SetItem(i, [items[i] EXCEPT !.pc = "transfer"])
    /\ UNCHANGED <<files, db_resources, completed_tasks, success_count>>
    /\ DlItemUnchanged

\* the GET request and the streamed write to the temporary file
\* (downloader_worker.py:133-145)
ItemTransfer(i) ==
    /\ items[i].pc = "transfer"
    /\ LET temp_path == TempPath(items[i].filepath)
           raises == \/ batch[i].net = "down"
                     \/ batch[i].net = "flaky" /\ items[i].gets = 0
       IN  IF raises
           THEN /\ SetItem(i, [items[i] EXCEPT !.pc = "except", !.gets = @ + 1,
                                                !.error_msg = ErrTransport])
                /\ files' = files
           ELSE IF batch[i].net = "drop"
           THEN /\ SetItem(i, [items[i] EXCEPT !.pc = "except", !.gets = @ + 1,
                                                !.file_size = batch[i].size,
                                                !.error_msg = ErrTransport])
                /\ files' = [files EXCEPT ![temp_path] = FileOf(1, i, FALSE)]
           ELSE /\ SetItem(i, [items[i] EXCEPT !.pc = "rename", !.gets = @ + 1,
                                                !.file_size = batch[i].size])
                /\ files' = [files EXCEPT ![temp_path] =
                                             FileOf(batch[i].size, i, TRUE)]
    /\ UNCHANGED <<db_resources, completed_tasks, success_count>>
    /\ DlItemUnchanged

\* the move onto the target (downloader_worker.py:147-153): rename raises
\* when the temporary file is gone
ItemRename(i) ==
    /\ items[i].pc = "rename"
    /\ LET filepath == items[i].filepath
           temp_path == TempPath(filepath)
       IN  IF Exists(temp_path)
           THEN /\ files' = [files EXCEPT ![filepath] = files[temp_path],
                                          ![temp_path] = NoFile]
                /\ SetItem(i, [items[i] EXCEPT !.pc = "report", !.success = TRUE])
           ELSE /\ files' = [files EXCEPT ![filepath] = NoFile]
                /\ SetItem(i, [items[i] EXCEPT !.pc = "except",
                                                !.error_msg = ErrRename])
    /\ UNCHANGED <<db_resources, completed_tasks, success_count>>
    /\ DlItemUnchanged

\* a retry that waits the same time before every attempt
RetryWaitMut(attempt) == retry_delay
\* time.sleep(retry_delay * (attempt + 1)) (downloader_worker.py:166)
RetryWait(attempt) == retry_delay * (attempt + 1)

\* except Exception (downloader_worker.py:155-169): the temporary file is
\* removed; a sleep and the next attempt, or failure after the last one
ItemExcept(i) ==
    /\ items[i].pc = "except"
    /\ files' = [files EXCEPT ![TempPath(items[i].filepath)] = NoFile]
    /\ IF items[i].attempt < max_retries
       THEN SetItem(i, [items[i] EXCEPT
                           !.pc = "filename",
                           !.waits = Append(@, RetryWait(items[i].attempt)),
                           !.attempt = @ + 1])
       ELSE SetItem(i, [items[i] EXCEPT !.pc = "report", !.success = FALSE])
    /\ UNCHANGED <<db_resources, completed_tasks, success_count>>
    /\ DlItemUnchanged

\* update_resource_status after the loop (downloader_worker.py:171-180)
ItemReport(i) ==
    /\ items[i].pc = "report"
    /\ db_resources' = UpdateResourceTable(db_resources, DlTaskId, batch[i].url,
                           IF items[i].success THEN "completed" ELSE "failed",
                           IF items[i].success THEN PathStr(items[i].filepath)
                                               ELSE 0,
                           items[i].file_size, items[i].error_msg)
    /\ SetItem(i, [items[i] EXCEPT !.pc = "callback"])
    /\ UNCHANGED <<files, completed_tasks, success_count>>
    /\ DlItemUnchanged

\* a callback that counts every finished item as a success
ItemCallbackMut(i) ==
    /\ items[i].pc = "callback"
    /\ IF is_cancelled
       THEN /\ SetItem(i, [items[i] EXCEPT !.pc = "done"])
            /\ UNCHANGED <<completed_tasks, success_count>>
       ELSE /\ SetItem(i, [items[i] EXCEPT !.pc = "progress_args"])
            /\ completed_tasks' = completed_tasks + 1
            /\ success_count' = success_count + 1
    /\ UNCHANGED <<files, db_resources>>
    /\ DlItemUnchanged
\* the callback, _on_item_finished (downloader_worker.py:182-183, 358-366):
\* the return on _is_cancelled, else the counters under the mutex
ItemCallback(i) ==
    /\ items[i].pc = "callback"
    /\ IF is_cancelled
       THEN /\ SetItem(i, [items[i] EXCEPT !.pc = "done"])
            /\ UNCHANGED <<completed_tasks, success_count>>
       ELSE /\ SetItem(i, [items[i] EXCEPT !.pc = "progress_args"])
            /\ completed_tasks' = completed_tasks + 1
            /\ success_count' = IF items[i].success THEN success_count + 1
                                                    ELSE success_count
    /\ UNCHANGED <<files, db_resources>>
    /\ DlItemUnchanged

\* the arguments of progress.emit are evaluated, outside the mutex
\* (downloader_worker.py:368): the thread reads _completed_tasks
ItemProgressArgs(i) ==
    /\ items[i].pc = "progress_args"
    /\ SetItem(i, [items[i] EXCEPT !.pc = "progress_emit",
                                    !.seen = completed_tasks])
    /\ UNCHANGED <<files, db_resources, completed_tasks, success_count>>
    /\ DlItemUnchanged

\* progress.emit(done, total) is called with what was read
\* (downloader_worker.py:368-373)
ItemProgressEmit(i) ==
    /\ items[i].pc = "progress_emit"
    /\ dl_progress' = Append(dl_progress, <<items[i].seen, total_tasks>>)
    /\ SetItem(i, [items[i] EXCEPT !.pc = "done"])
    /\ UNCHANGED <<files, db_resources, completed_tasks, success_count>>
    /\ DlItemFrame

\* ---- DownloaderWorker.run and cancel (downloader_worker.py:292-356) ----

DlRunUnchanged ==
    UNCHANGED <<qvars, cvars, site, max_depth, num_workers, phase, scraped_data,
                pool_finished_emitted, db_task, events, mpc, mtask, mlinks,
                wvars, accepted, hqvars, hpvars, queued_at_cancel, lvars,
                tick_q_size, db_calls, last_call, batch, files, old_files,
                dl_threads, dl_progress, uvars, kvars, ovars>>

\* create_task and the collection of the resources (lines 294-303)
DlCreateTask ==
    /\ dpc = "start"
    /\ dl_task' = TaskCreated(clock)
    /\ clock' = clock + 1
    /\ total_tasks' = Len(batch)
    /\ dpc' = "collected"
    /\ UNCHANGED <<didx, is_cancelled, completed_tasks, success_count,
                   dl_finished, items, db_resources>>
    /\ DlRunUnchanged

\* nothing selected (lines 305-310)
DlNoResources ==
    /\ dpc = "collected" /\ total_tasks = 0
    /\ dl_finished' = Append(dl_finished, <<0, 0>>)
    /\ dl_task' = TaskStatusUpdated(dl_task, "completed", TRUE, clock)
    /\ clock' = clock + 1
    /\ dpc' = "done"
    /\ UNCHANGED <<didx, is_cancelled, total_tasks, completed_tasks,
                   success_count, items, db_resources>>
    /\ DlRunUnchanged

\* os.makedirs, then add_resource for every resource (lines 312-321)
DlRegister ==
    /\ dpc = "collected" /\ total_tasks > 0
    /\ LET RECURSIVE Added(_)
           Added(n) == IF n = 0 THEN db_resources
                       ELSE AddResourceTable(Added(n - 1), DlTaskId, batch[n])
       IN  db_resources' = Added(Len(batch))
    /\ dpc' = "dispatch"
    /\ UNCHANGED <<didx, dl_task, clock, is_cancelled, total_tasks,
                   completed_tasks, success_count, dl_finished, items>>
    /\ DlRunUnchanged

\* a run whose except clause can also be entered after the final status
\* was written
DlRunFailsMut ==
    /\ \/ dpc = "collected" /\ total_tasks > 0
       \/ dpc = "done" /\ dl_task.status = "completed"
    /\ dl_task' = TaskStatusUpdated(dl_task, "failed", TRUE, clock)
    /\ clock' = clock + 1
    /\ dl_finished' = Append(dl_finished, <<success_count, total_tasks>>)
    /\ dpc' = "done"
    /\ UNCHANGED <<didx, is_cancelled, total_tasks, completed_tasks,
                   success_count, items, db_resources>>
    /\ DlRunUnchanged
\* os.makedirs raises: the except clause of run (lines 342-350)
DlRunFails ==
    /\ dpc = "collected" /\ total_tasks > 0
    /\ dl_task' = TaskStatusUpdated(dl_task, "failed", TRUE, clock)
    /\ clock' = clock + 1
    /\ dl_finished' = Append(dl_finished, <<success_count, total_tasks>>)
    /\ dpc' = "done"
    /\ UNCHANGED <<didx, is_cancelled, total_tasks, completed_tasks,
                   success_count, items, db_resources>>
    /\ DlRunUnchanged

\* one turn of the dispatch loop (lines 325-327): the next resource, and
\* _is_cancelled read false
DlDispatch ==
    /\ dpc = "dispatch" /\ didx < Len(batch) /\ ~is_cancelled
    /\ dpc' = "starting"
    /\ UNCHANGED <<didx, dl_task, clock, is_cancelled, total_tasks,
                   completed_tasks, success_count, dl_finished, items,
                   db_resources>>
    /\ DlRunUnchanged

\* the rest of the turn (lines 329-331): pool.start(runnable)
DlDispatchStart ==
    /\ dpc = "starting"
    /\ didx' = didx + 1
    /\ items' = [items EXCEPT ![didx + 1] = [@ EXCEPT !.pc = "queued"]]
    /\ dpc' = "dispatch"
    /\ UNCHANGED <<dl_task, clock, is_cancelled, total_tasks,
                   completed_tasks, success_count, dl_finished, db_resources>>
    /\ DlRunUnchanged

\* the loop ends, by exhaustion or by the break on _is_cancelled
DlDispatchEnd ==
    /\ dpc = "dispatch" /\ (didx = Len(batch) \/ is_cancelled)
    /\ dpc' = "waiting"
    /\ UNCHANGED <<didx, dl_task, clock, is_cancelled, total_tasks,
                   completed_tasks, success_count, dl_finished, items,
                   db_resources>>
    /\ DlRunUnchanged

\* a waitForDone that returns only when every resource was downloaded
DlFinishMut ==
    /\ dpc = "waiting"
    /\ \A i \in Items : items[i].pc = "done"
    /\ dl_task' = TaskProgressUpdated(
                      TaskStatusUpdated(dl_task,
                          IF is_cancelled THEN "cancelled" ELSE "completed",
                          TRUE, clock),
                      success_count, total_tasks)
    /\ clock' = clock + 1
    /\ dl_finished' = Append(dl_finished, <<success_count, total_tasks>>)
    /\ dpc' = "done"
    /\ UNCHANGED <<didx, is_cancelled, total_tasks, completed_tasks,
                   success_count, items, db_resources>>
    /\ DlRunUnchanged
\* waitForDone returns, then the final status (lines 333-340)
DlFinish ==
    /\ dpc = "waiting"
    /\ \A i \in Items : items[i].pc \in {"new", "dropped", "done"}
    /\ dl_task' = TaskProgressUpdated(
                      TaskStatusUpdated(dl_task,
                          IF is_cancelled THEN "cancelled" ELSE "completed",
                          TRUE, clock),
                      success_count, total_tasks)
    /\ clock' = clock + 1
    /\ dl_finished' = Append(dl_finished, <<success_count, total_tasks>>)
    /\ dpc' = "done"
    /\ UNCHANGED <<didx, is_cancelled, total_tasks, completed_tasks,
                   success_count, items, db_resources>>
    /\ DlRunUnchanged

\* pool.clear() (line 354) drops the runnables no thread has taken
PoolCleared(its) ==
    [i \in 1..Len(its) |-> IF its[i].pc = "queued"
                           THEN [its[i] EXCEPT !.pc = "dropped"]
                           ELSE its[i]]

\* cancel (lines 352-356): the flag, and pool.clear()
DlCancel ==
    /\ dpc \in {"start", "collected", "dispatch", "starting", "waiting"}
    /\ ~is_cancelled
    /\ is_cancelled' = TRUE
    /\ items' = PoolCleared(items)
    /\ UNCHANGED <<dpc, didx, dl_task, clock, total_tasks, completed_tasks,
                   success_count, dl_finished, db_resources>>
    /\ DlRunUnchanged

\* cancel called again on the same run (main_window.py:513-514, 521-522)
DlCancelAgain ==
    /\ dpc \in {"start", "collected", "dispatch", "starting", "waiting"}
    /\ is_cancelled
    /\ is_cancelled' = TRUE
    /\ items' = PoolCleared(items)
    /\ UNCHANGED <<dpc, didx, dl_task, clock, total_tasks, completed_tasks,
                   success_count, dl_finished, db_resources>>
    /\ DlRunUnchanged

---------------------------------------------------------------------------
\* The controller: MainWindow (main_window.py:352-516).
\*
\* A run (a WorkerPool or a DownloaderWorker) is "unborn", then "running";
\* a cancelled run is "cancelled" until it delivers its finished signal, if
\* it does; "finished" after the signal was delivered.

RunIds == 1..MaxRuns
Widgets == {"analyze_btn", "url_input", "download_btn", "cancel_btn",
            "category_panel"}
Active(runs) == {r \in RunIds : runs[r] = "running"}
NextRun(runs) == CHOOSE r \in RunIds :
                    runs[r] = "unborn" /\ \A q \in 1..(r - 1) : runs[q] # "unborn"

UiUnchanged ==
    UNCHANGED <<qvars, cvars, pvars, wvars, accepted, hqvars, hpvars,
                queued_at_cancel, lvars, tick_q_size, dbvars, dvars, kvars,
                ovars>>

\* _set_encoding_state(is_running) (main_window.py:375-386)
SetEncodingState(en, running) ==
    [en EXCEPT !["analyze_btn"] = ~running,
               !["url_input"] = ~running,
               !["download_btn"] = ~running,
               !["cancel_btn"] = running]

\* _start_analysis (main_window.py:352-373), with a URL in the input
StartAnalysis ==
    /\ \E r \in RunIds : crawls[r] = "unborn"
    /\ enabled' = SetEncodingState(enabled, TRUE)
    /\ worker_pool' = NextRun(crawls)
    /\ crawls' = [crawls EXCEPT ![NextRun(crawls)] = "running"]
    /\ UNCHANGED <<downloader, mw_scraped_data, has_selection, downloads>>
    /\ UiUnchanged

\* analyze_btn.clicked (main_window.py:161)
ClickAnalyze == enabled["analyze_btn"] /\ StartAnalysis

\* url_input.returnPressed (main_window.py:157)
ReturnPressed == enabled["url_input"] /\ StartAnalysis

\* pool_finished of crawl r reaches _on_analysis_done (main_window.py:396-406);
\* display_results selects every resource found (widgets.py:443-458)
OnAnalysisDone(r, data) ==
    /\ crawls[r] \in {"running", "cancelled"}
    /\ crawls' = [crawls EXCEPT ![r] = "finished"]
    /\ mw_scraped_data' = data
    /\ has_selection' = (data = "some")
    /\ enabled' = [SetEncodingState(enabled, FALSE) EXCEPT
                      !["download_btn"] = (data = "some")]
    /\ worker_pool' = 0
    /\ UNCHANGED <<downloader, downloads>>
    /\ UiUnchanged

\* a checkbox of the category panel is toggled, or a details dialog
\* accepted: selection_changed reaches _update_download_state
\* (widgets.py:495-534, main_window.py:507-508)
SelectionChanged(sel) ==
    /\ enabled["category_panel"] /\ mw_scraped_data = "some"
    /\ has_selection' = sel
    /\ enabled' = [enabled EXCEPT !["download_btn"] = sel]
    /\ UNCHANGED <<worker_pool, downloader, mw_scraped_data, crawls, downloads>>
    /\ UiUnchanged

\* download_btn.clicked: _start_download (main_window.py:415-480) with
\* something selected
ClickDownload ==
    /\ enabled["download_btn"]
    /\ mw_scraped_data # "none" /\ has_selection
    /\ \E d \in RunIds : downloads[d] = "unborn"
    /\ enabled' = [enabled EXCEPT !["download_btn"] = FALSE,
                                  !["analyze_btn"] = FALSE,
                                  !["cancel_btn"] = TRUE,
                                  !["category_panel"] = FALSE]
    /\ downloader' = NextRun(downloads)
    /\ downloads' = [downloads EXCEPT ![NextRun(downloads)] = "running"]
    /\ UNCHANGED <<worker_pool, mw_scraped_data, has_selection, crawls>>
    /\ UiUnchanged

\* finished of download d reaches _on_download_done (main_window.py:487-499)
OnDownloadDone(d) ==
    /\ downloads[d] \in {"running", "cancelled"}
    /\ downloads' = [downloads EXCEPT ![d] = "finished"]
    /\ enabled' = [enabled EXCEPT !["download_btn"] = TRUE,
                                  !["analyze_btn"] = TRUE,
                                  !["cancel_btn"] = FALSE,
                                  !["category_panel"] = TRUE]
    /\ downloader' = 0
    /\ UNCHANGED <<worker_pool, mw_scraped_data, has_selection, crawls>>
    /\ UiUnchanged

\* cancel_btn.clicked: _cancel_task (main_window.py:510-516)
CancelTask ==
    /\ enabled["cancel_btn"]
    /\ crawls' = IF worker_pool # 0 /\ crawls[worker_pool] = "running"
                 THEN [crawls EXCEPT ![worker_pool] = "cancelled"]
                 ELSE crawls
    /\ downloads' = IF downloader # 0 /\ downloads[downloader] = "running"
                    THEN [downloads EXCEPT ![downloader] = "cancelled"]
                    ELSE downloads
    /\ enabled' = [enabled EXCEPT !["cancel_btn"] = FALSE]
    /\ UNCHANGED <<worker_pool, downloader, mw_scraped_data, has_selection>>
    /\ UiUnchanged

---------------------------------------------------------------------------
\* Downloader.download (core/downloader.py): one call, step by step.  A
\* message is the sequence of the parts its f-string joins; None is << >>.

MaxChunks == 2

\* free < required_bytes + 50 * 1024 * 1024 (core/downloader.py:73)
Reserve == 50 * 1024 * 1024

\* a content-length header: a number, or one of
Absent == -1
Malformed == -2
\* shutil.disk_usage raising
UsageRaises == -1

ContentLengths == {Absent, Malformed, 0, 10, 1000}
FreeSpaces ==
    {UsageRaises, 100, Reserve - 1, Reserve, Reserve + 9, Reserve + 10,
     Reserve + 999, Reserve + 1000, 1000000000}

OutputPath == "output_path"
TempFile == "temp_path"
InsufficientDiskSpace == "Insufficient disk space"

NewResource ==
    [status |-> "pending", error_message |-> << >>, local_path |-> "none"]

\* Resource.mark_completed (core/models.py:146-151)
mark_completed(res, local_path) ==
    [res EXCEPT !.status = "completed", !.local_path = local_path,
                !.error_message = << >>]

\* Resource.mark_failed (core/models.py:153-156)
mark_failed(res, error) ==
    [res EXCEPT !.status = "failed", !.error_message = error]

\* a check that forgets the reserve
check_disk_space_mut(free, required_bytes) ==
    IF free = UsageRaises THEN TRUE ELSE ~(free < required_bytes)
\* _check_disk_space (core/downloader.py:51-79): False when free is below
\* the required bytes plus the reserve, True when the usage cannot be read
check_disk_space(free, required_bytes) ==
    IF free = UsageRaises
    THEN TRUE
    ELSE ~(free < required_bytes + Reserve)

\* int(response.headers.get('content-length', 0)) (line 125), the header
\* being a number
total_size_of(header) == IF header = Absent THEN 0 ELSE header

CdUnchanged ==
    UNCHANGED <<qvars, cvars, pvars, wvars, accepted, hqvars, hpvars,
                queued_at_cancel, lvars, tick_q_size, dbvars, dvars, uvars,
                server, disk_free, cancel_at, ovars>>

\* an except clause of download (lines 163-179): the resource is marked
\* failed with the clause's prefix and the exception's text, False is returned
Caught(prefix, text) ==
    /\ resource' = mark_failed(resource, <<prefix, text>>)
    /\ cd_ret' = "false"
    /\ cd_pc' = "finally"

\* the paths and the GET (lines 98-122): a refused connection and an error
\* status are both a requests.RequestException
DownloadGet ==
    /\ cd_pc = "call"
    /\ IF server.response = "ok"
       THEN /\ cd_pc' = "size"
            /\ UNCHANGED <<resource, cd_ret>>
       ELSE Caught("Network error: ", server.response)
    /\ UNCHANGED <<cd_files, downloaded_size>>
    /\ CdUnchanged

\* the total size and the space check (lines 124-130)
DownloadSize ==
    /\ cd_pc = "size"
    /\ IF server.content_length = Malformed
       THEN Caught("Unexpected error: ", "invalid literal for int()")
       ELSE LET total_size == total_size_of(server.content_length)
            IN  IF total_size > 0 /\ ~check_disk_space(disk_free, total_size)
                THEN Caught("File I/O error: ", InsufficientDiskSpace)
                ELSE /\ cd_pc' = "open"
                     /\ UNCHANGED <<resource, cd_ret>>
    /\ UNCHANGED <<cd_files, downloaded_size>>
    /\ CdUnchanged

\* open(temp_path, 'wb') (line 135): the temporary file is created or emptied
DownloadOpen ==
    /\ cd_pc = "open"
    /\ cd_files' = [cd_files EXCEPT ![TempFile] = "partial"]
    /\ cd_pc' = "stream"
    /\ UNCHANGED <<downloaded_size, resource, cd_ret>>
    /\ CdUnchanged

\* one round of the chunk loop (lines 136-150): the stream breaks, the call
\* is cancelled, or the chunk is written
DownloadChunk ==
    /\ cd_pc = "stream"
    /\ downloaded_size < server.chunks
    /\ LET k == downloaded_size + 1
       IN  IF server.drop_at = k
           THEN /\ Caught("Network error: ", "connection broken")
                /\ UNCHANGED downloaded_size
           ELSE IF cancel_at # 0 /\ cancel_at <= k
           THEN /\ resource' = [resource EXCEPT !.status = "cancelled"]
                /\ cd_ret' = "false"
                /\ cd_pc' = "finally"
                /\ UNCHANGED downloaded_size
           ELSE /\ downloaded_size' = k
                /\ UNCHANGED <<resource, cd_ret, cd_pc>>
    /\ UNCHANGED cd_files
    /\ CdUnchanged

\* the body is exhausted and the with block closes the file (lines 135-150)
DownloadClose ==
    /\ cd_pc = "stream"
    /\ downloaded_size = server.chunks
    /\ cd_files' = [cd_files EXCEPT ![TempFile] = "whole"]
    /\ cd_pc' = "rename"
    /\ UNCHANGED <<downloaded_size, resource, cd_ret>>
    /\ CdUnchanged

\* the move onto output_path, an existing file removed first, and
\* mark_completed (lines 152-161)
DownloadRename ==
    /\ cd_pc = "rename"
    /\ cd_files' = [cd_files EXCEPT ![OutputPath] = cd_files[TempFile],
                                    ![TempFile] = "none"]
    /\ resource' = mark_completed(resource, OutputPath)
    /\ cd_ret' = "true"
    /\ cd_pc' = "finally"
    /\ UNCHANGED downloaded_size
    /\ CdUnchanged

\* the finally clause (lines 181-187) and the return
DownloadFinally ==
    /\ cd_pc = "finally"
    /\ cd_files' = [cd_files EXCEPT ![TempFile] = "none"]
    /\ cd_pc' = "returned"
    /\ UNCHANGED <<downloaded_size, resource, cd_ret>>
    /\ CdUnchanged

---------------------------------------------------------------------------
\* PageParser.parse (core/parser.py) on one response, and the loop of
\* _on_task_completed over what it delivers.  A page is what the parser
\* reads of it: the candidate blocks (div, article, section, main) in
\* document order with what the scoring counts, and the quote elements.

MaxQuotes == 3

\* a candidate block and the quote elements inside it (itself included)
Block(pos, neg, len, qs) ==
    [positive |-> pos, negative |-> neg, h1 |-> 0, h2 |-> 0, p |-> 0, img |-> 0,
     text_length |-> len, quotes |-> qs]

\* _score_content_block (parser.py:159-207)
score_content_block(block) ==
    10 * block.positive - 20 * block.negative
    + 10 * block.h1 + 5 * block.h2 + 2 * block.p + 3 * block.img
    + (IF block.text_length < 50 THEN -10
       ELSE IF block.text_length > 500 THEN 15 ELSE 0)

\* the loop of _extract_main_content (parser.py:142-150): the first block
\* whose score no other block exceeds, 0 for the page itself
BestBlock(blocks) ==
    IF \A i \in 1..Len(blocks) : score_content_block(blocks[i]) <= -1000
    THEN 0
    ELSE CHOOSE i \in 1..Len(blocks) :
            /\ \A j \in 1..Len(blocks) :
                  score_content_block(blocks[j]) <= score_content_block(blocks[i])
            /\ \A j \in 1..(i - 1) :
                  score_content_block(blocks[j]) < score_content_block(blocks[i])

\* _extract_main_content (parser.py:123-157): the quote elements of the soup
\* the extractors are given
extract_main_content(pg) ==
    LET best == BestBlock(pg.blocks)
    IN  IF pg.blocks = << >> \/ best = 0
           \/ score_content_block(pg.blocks[best]) < 0
        THEN 1..pg.n_quotes
        ELSE pg.blocks[best].quotes

RECURSIVE Repeat(_, _)
Repeat(x, n) == IF n = 0 THEN << >> ELSE <<x>> \o Repeat(x, n - 1)

\* _extract_text_content (parser.py:325-390): one rich_text resource per
\* quote element, each with the page URL; without quotes one text resource
\* for an article or a main block that is long enough
extract_text_content(pg, quotes) ==
    IF quotes # {}
    THEN Repeat(Resource(1, "rich_text", ""), Cardinality(quotes))
    ELSE IF pg.article THEN <<Resource(1, "text", "")>> ELSE << >>

\* _parse_json_response (parser.py:73-89)
parse_json_response(pg) ==
    IF pg.json_ok THEN <<Resource(1, "json_data", ".json")>> ELSE << >>

\* _parse_html_response (parser.py:91-115), the resources: the media of the
\* main content, then its text
parse_html_response(pg) ==
    pg.media \o extract_text_content(pg, extract_main_content(pg))

\* parse (parser.py:64-71), the resources
parse(pg) ==
    IF pg.content_type = "json"
    THEN parse_json_response(pg)
    ELSE parse_html_response(pg)

PaUnchanged ==
    UNCHANGED <<qvars, cvars, site, max_depth, num_workers, phase,
                pool_finished_emitted, db_task, clock, events, mpc, mtask,
                mlinks, wvars, accepted, hqvars, hpvars, queued_at_cancel,
                lvars, tick_q_size, dbvars, dvars, uvars, kvars, page, nvars,
                maxsize, conns>>

\* the worker parses the page and emits task_completed
\* (request_worker.py:95-99)
PaParse ==
    /\ pa_pc = "parse"
    /\ delivered' = parse(page)
    /\ pa_pc' = "resources"
    /\ UNCHANGED <<scraped_data, pa_idx>>
    /\ PaUnchanged

\* one iteration of "for res in resources" (worker_pool.py:159-172)
PaCategorize ==
    /\ pa_pc = "resources" /\ pa_idx < Len(delivered)
    /\ scraped_data' = AppendResource(scraped_data, delivered[pa_idx + 1])
    /\ pa_idx' = pa_idx + 1
    /\ UNCHANGED <<pa_pc, delivered>>
    /\ PaUnchanged

\* the loop over the resources ends (worker_pool.py:159, 174)
PaCategorized ==
    /\ pa_pc = "resources" /\ pa_idx = Len(delivered)
    /\ pa_pc' = "links"
    /\ UNCHANGED <<scraped_data, delivered, pa_idx>>
    /\ PaUnchanged

---------------------------------------------------------------------------
\* NetworkManager.get (core/network.py:126-182): one call.  An attempt is one
\* session.get with raise_for_status; what the mounted adapter retries on its
\* own (lines 72-79) is inside the attempt.

MaxRetriesBound == 2

\* "rotate_ua if rotate_ua is not None else self.rotate_ua_per_request"
\* (line 145)
should_rotate ==
    IF nm.rotate_ua # "None" THEN nm.rotate_ua = "True"
    ELSE nm.rotate_ua_per_request

\* the attempt about to be made ends in a requests.RequestException
AttemptFails == nm.outcomes[Len(attempts) + 1] # "ok"

NmUnchanged ==
    UNCHANGED <<qvars, cvars, pvars, wvars, accepted, hqvars, hpvars,
                queued_at_cancel, lvars, tick_q_size, dbvars, dvars, uvars,
                kvars, avars, nm, maxsize, conns>>

\* the headers before the request (lines 145-151)
NmHeaders ==
    /\ nm_pc = "call"
    /\ rotations' = IF should_rotate THEN rotations + 1 ELSE rotations
    /\ nm_pc' = "first"
    /\ UNCHANGED <<attempts, nm_ret>>
    /\ NmUnchanged

\* the first attempt (lines 153-164)
NmFirst ==
    /\ nm_pc = "first"
    /\ attempts' = Append(attempts, rotations)
    /\ IF AttemptFails
       THEN nm_pc' = "failed" /\ UNCHANGED nm_ret
       ELSE nm_pc' = "returned" /\ nm_ret' = "response"
    /\ UNCHANGED rotations
    /\ NmUnchanged

\* a retry whose exception is not caught
NmRetryMut ==
    /\ nm_pc = "failed"
    /\ should_rotate /\ nm.max_retries > 0
    /\ rotations' = rotations + 1
    /\ attempts' = Append(attempts, rotations')
    /\ nm_ret' = IF AttemptFails THEN "raised" ELSE "response"
    /\ nm_pc' = "returned"
    /\ NmUnchanged
\* the retry with a new User-Agent (lines 166-182)
NmRetry ==
    /\ nm_pc = "failed"
    /\ should_rotate /\ nm.max_retries > 0
    /\ rotations' = rotations + 1
    /\ attempts' = Append(attempts, rotations')
    /\ nm_ret' = IF AttemptFails THEN "none" ELSE "response"
    /\ nm_pc' = "returned"
    /\ NmUnchanged

\* no retry: return None (lines 167, 182)
NmGiveUp ==
    /\ nm_pc = "failed"
    /\ ~(should_rotate /\ nm.max_retries > 0)
    /\ nm_ret' = "none"
    /\ nm_pc' = "returned"
    /\ UNCHANGED <<attempts, rotations>>
    /\ NmUnchanged

---------------------------------------------------------------------------
\* Specifications

InitQueue ==
    /\ queue = << >>
    /\ unfinished_tasks = 0
    /\ visited_urls = {}
    /\ total_queued = 0
    /\ total_completed = 0
    /\ total_failed = 0

InitHistory ==
    /\ accepted = [u \in PageUrls |-> 0]
    /\ rejected = {}
    /\ put_calls = 0
    /\ cleared = FALSE
    /\ last_get_prios = {}
    /\ put_log = {}
    /\ handled = {}
    /\ finished_count = 0
    /\ finished_data = EmptyData
    /\ cancel_called = FALSE
    /\ queued_at_cancel = {}

NoCall == [op |-> "none", task_id |-> 0, url |-> 0, status |-> "none",
           finished |-> FALSE, ret |-> 0]

\* _init_db (database.py:35-86): empty tables
InitCatalog ==
    /\ db_resources = << >>
    /\ db_calls = 0
    /\ last_call = NoCall

NoFiles == [p \in AllPaths |-> NoFile]

\* no call of Downloader.download
InitNoCall ==
    /\ server = [response |-> "ok", content_length |-> Absent, chunks |-> 0,
                 drop_at |-> 0]
    /\ disk_free = UsageRaises
    /\ cancel_at = 0
    /\ cd_pc = "absent"
    /\ cd_files = [p \in {OutputPath, TempFile} |-> "none"]
    /\ downloaded_size = 0
    /\ resource = NewResource
    /\ cd_ret = "none"

NoPage == [content_type |-> "none", json_ok |-> FALSE, blocks |-> << >>,
           n_quotes |-> 0, article |-> FALSE, media |-> << >>]

\* no page being parsed
InitNoParse ==
    /\ page = NoPage
    /\ pa_pc = "absent"
    /\ delivered = << >>
    /\ pa_idx = 0

\* no call of NetworkManager.get
InitNoGet ==
    /\ nm = [max_retries |-> 0, rotate_ua_per_request |-> FALSE,
             rotate_ua |-> "None", outcomes |-> << >>]
    /\ nm_pc = "absent"
    /\ attempts = << >>
    /\ rotations = 0
    /\ nm_ret = "pending"

\* a caller of add_resource that is not inside a call
NoConn == [pc |-> "idle", task_id |-> 0, url |-> 0, resource_type |-> "none",
           ret |-> 0, calls |-> 0]

\* CrawlQueue() as WorkerPool constructs it (worker_pool.py:51), and no
\* concurrent callers of the catalog
InitRest ==
    /\ maxsize = 0
    /\ conns = [c \in Callers |-> NoConn]

InitOthers == InitNoParse /\ InitNoGet /\ InitRest

\* MainWindow.__init__ and _setup_ui (main_window.py:31-34, 150-225)
InitController ==
    /\ enabled = [w \in Widgets |-> w \notin {"download_btn", "cancel_btn"}]
    /\ worker_pool = 0
    /\ downloader = 0
    /\ mw_scraped_data = "none"
    /\ has_selection = FALSE
    /\ crawls = [r \in RunIds |-> "unborn"]
    /\ downloads = [r \in RunIds |-> "unborn"]

\* no DownloaderWorker constructed
InitNoDownload ==
    /\ batch = << >>
    /\ files = NoFiles
    /\ old_files = files
    /\ dl_threads = 1
    /\ dpc = "absent"
    /\ didx = 0
    /\ dl_task = NoRow
    /\ is_cancelled = FALSE
    /\ total_tasks = 0
    /\ completed_tasks = 0
    /\ success_count = 0
    /\ dl_finished = << >>
    /\ dl_progress = << >>
    /\ items = << >>

InitPoolWith(s, d, n) ==
    /\ site = s
    /\ max_depth = d
    /\ num_workers = ClampWorkers(n)
    /\ phase = "constructed"
    /\ scraped_data = EmptyData
    /\ pool_finished_emitted = FALSE
    /\ db_task = NoRow
    /\ clock = 1
    /\ events = << >>
    /\ mpc = "idle"
    /\ mtask = [url |-> 0, depth |-> 0]
    /\ mlinks = << >>
    /\ wpc = [w \in WorkerIds |-> "absent"]
    /\ wtask = [w \in WorkerIds |-> NoTask]
    /\ wbreak = [w \in WorkerIds |-> FALSE]
    /\ is_running = [w \in WorkerIds |-> FALSE]
    /\ len_workers = 0
    /\ timer_active = FALSE
    /\ tick_q_size = 0

InitClients ==
    /\ cpc = [c \in Clients |-> "idle"]
    /\ ctask = [c \in Clients |-> NoTask]

\* WorkerPool(num_workers=n, max_depth=d) constructed, crawl not started
Init ==
    /\ InitQueue /\ InitHistory /\ InitClients /\ InitCatalog /\ InitNoDownload
    /\ InitController /\ InitNoCall /\ InitOthers
    /\ \E s \in Sites, d \in 1..MaxDepthBound, n \in 0..MaxWorkers :
          InitPoolWith(s, d, n)

Next ==
    \/ StartCrawl /\ UNCHANGED <<queued_at_cancel, xvars>>
    \/ OnTaskCompleted /\ UNCHANGED cxvars
    \/ OfferLink /\ UNCHANGED cxvars
    \/ CompletedCheck /\ UNCHANGED cxvars
    \/ OnTaskFailed /\ UNCHANGED cxvars
    \/ UserCancel /\ UNCHANGED <<lvars, xvars>>
    \/ \E w \in Workers : WorkerLoop(w) /\ UNCHANGED cxvars
    \/ \E w \in Workers : WorkerGet(w) /\ UNCHANGED cxvars
    \/ \E w \in Workers : WorkerGetTimeout(w) /\ UNCHANGED cxvars
    \/ \E w \in Workers : WorkerProcess(w) /\ UNCHANGED cxvars
    \/ \E w \in Workers : WorkerTaskDoneStats(w) /\ UNCHANGED cxvars
    \/ \E w \in Workers : WorkerTaskDoneQueue(w) /\ UNCHANGED cxvars

Spec == Init /\ [][Next]_vars

\* the steps of worker w's thread
WorkerStep(w) ==
    /\ \/ WorkerLoop(w) \/ WorkerGet(w) \/ WorkerGetTimeout(w)
       \/ WorkerProcess(w) \/ WorkerTaskDoneStats(w) \/ WorkerTaskDoneQueue(w)
    /\ UNCHANGED cxvars

\* every worker's thread keeps being scheduled: the get returns within its
\* 0.5 s timeout and the fetches of parse return within theirs
\* a site whose seed page makes the parser raise
BrokenSite == [DeadSite EXCEPT !.outcome[1] = "raise"]

\* the crawl of a site whose pages link on or of one whose seed fails, for
\* the properties that need the fair scheduling
InitLive ==
    /\ InitQueue /\ InitHistory /\ InitClients /\ InitCatalog /\ InitNoDownload
    /\ InitController /\ InitNoCall /\ InitOthers
    /\ \E s \in {QuotesSite, BrokenSite}, d \in 1..MaxDepthBound, n \in 0..MaxWorkers :
          InitPoolWith(s, d, n)

SpecLive ==
    /\ InitLive /\ [][Next]_vars
    /\ \A w \in WorkerIds : WF_vars(WorkerStep(w))

\* a CrawlQueue() on its own
InitQ ==
    /\ InitQueue /\ InitHistory /\ InitClients /\ InitCatalog /\ InitNoDownload
    /\ InitController /\ InitNoCall /\ InitOthers
    /\ InitPoolWith(DeadSite, 1, 1)

NextQ ==
    \/ \E c \in Clients, u \in QUrls, p \in Priorities :
          CPutRejected(c, CrawlTask(u, 1, p, 0)) /\ UNCHANGED cxvars
    \/ \E c \in Clients, u \in QUrls, p \in Priorities :
          CPutAdmit(c, CrawlTask(u, 1, p, 0)) /\ UNCHANGED cxvars
    \/ \E c \in Clients : CPutEnqueue(c) /\ UNCHANGED cxvars
    \/ \E c \in Clients : CPutCount(c) /\ UNCHANGED cxvars
    \/ \E c \in Clients : CGet(c) /\ UNCHANGED cxvars
    \/ \E c \in Clients, ok \in BOOLEAN : CTaskDoneStats(c, ok) /\ UNCHANGED cxvars
    \/ \E c \in Clients : CTaskDoneQueue(c) /\ UNCHANGED cxvars
    \/ \E c \in Clients : CClearQueue(c) /\ UNCHANGED cxvars
    \/ \E c \in Clients : CClearStats(c) /\ UNCHANGED cxvars

SpecQ == InitQ /\ [][NextQ]_vars

\* WorkerPool(num_workers=n) for any requested n, only the worker list
\* followed: the queue sizes a tick can read are inputs
QueueSizes == {0, ScaleUpQueueSize, ScaleUpQueueSize + 1}

InitW ==
    /\ InitQueue /\ InitHistory /\ InitClients /\ InitCatalog /\ InitNoDownload
    /\ InitController /\ InitNoCall /\ InitOthers
    /\ \E n \in 0..MaxRequested : InitPoolWith(DeadSite, 1, n)

NextW ==
    \/ \E auto \in BOOLEAN :
          StartCrawlWith(auto) /\ UNCHANGED <<queued_at_cancel, xvars>>
    \/ \E q \in QueueSizes : AdjustConcurrency(q)
    \/ StopTimer

SpecW == InitW /\ [][NextW]_vars

\* a DatabaseManager on an empty database, driven by one caller
DbResources == {Resource(11, "image", ".jpg"), Resource(12, "video", ".mp4"),
                Resource(0, "json_data", "")}
DbTaskIds == {TaskId, NoSuchTaskId}
DbStatuses == {"scanning", "completed"}

InitDB ==
    /\ InitQueue /\ InitHistory /\ InitClients /\ InitCatalog /\ InitNoDownload
    /\ InitController /\ InitNoCall /\ InitOthers
    /\ InitPoolWith(DeadSite, 1, 1)

NextDB ==
    \/ DbTick
    \/ DbCreateTask
    \/ \E t \in DbTaskIds, st \in DbStatuses, f \in BOOLEAN :
          DbUpdateTaskStatus(t, st, f)
    \/ \E t \in DbTaskIds, r \in DbResources : DbAddResource(t, r)
    \/ \E t \in DbTaskIds, r \in DbResources, ok \in BOOLEAN :
          DbUpdateResourceStatus(t, r.url, ok)

SpecDB == InitDB /\ [][NextDB]_vars

\* a DownloaderWorker started on a selection, in an output directory that
\* may hold files of an earlier run (main_window.py:474-480)
Photo(net, disk, head) == DlItem(11, "image", 1, FALSE, 5, net, disk, head)
Banner == DlItem(12, "image", 1, FALSE, 7, "ok", "ok", "ok")
Page == DlItem(13, "text", 2, TRUE, 3, "ok", "ok", "ok")
Batches ==
    {<< >>, <<Page>>, <<Photo("ok", "ok", "error")>>}
    \cup {<<Photo(net, disk, "ok")>> :
             net \in {"ok", "down", "drop", "flaky"}, disk \in {"ok", "full"}}
    \cup {<<Photo(net, "ok", "ok"), Banner>> : net \in {"ok", "down"}}
    \cup {<<Photo("ok", "full", "ok"), Banner>>,
          <<Photo("ok", "ok", "ok"), Photo("ok", "ok", "ok")>>}
OldFiles ==
    {NoFiles,
     [NoFiles EXCEPT ![Path(1, 0)] = FileOf(5, 0, TRUE)],
     [NoFiles EXCEPT ![Path(1, 0)] = FileOf(4, 0, TRUE)],
     [NoFiles EXCEPT ![Path(1, 0)] = FileOf(5, 0, TRUE),
                     ![Path(1, 1)] = FileOf(7, 0, TRUE)]}

InitD ==
    /\ InitQueue /\ InitHistory /\ InitClients /\ InitCatalog /\ InitController /\ InitNoCall /\ InitOthers
    /\ InitPoolWith(DeadSite, 1, 1)
    /\ batch \in Batches
    /\ files \in OldFiles
    /\ old_files = files
    /\ dl_threads \in 1..MaxDlThreads
    /\ dpc = "start"
    /\ didx = 0
    /\ dl_task = NoRow
    /\ is_cancelled = FALSE
    /\ total_tasks = 0
    /\ completed_tasks = 0
    /\ success_count = 0
    /\ dl_finished = << >>
    /\ dl_progress = << >>
    /\ items = [i \in 1..Len(batch) |-> NoItem]

NextD ==
    \/ DlCreateTask
    \/ DlNoResources
    \/ DlRegister
    \/ DlRunFails
    \/ DlDispatch
    \/ DlDispatchStart
    \/ DlDispatchEnd
    \/ DlFinish
    \/ DlCancel
    \/ DlCancelAgain
    \/ \E i \in Items : ItemStart(i)
    \/ \E i \in Items : ItemFilename(i)
    \/ \E i \in Items : ItemCache(i)
    \/ \E i \in Items : ItemDiskCheck(i)
    \/ \E i \in Items : ItemTransfer(i)
    \/ \E i \in Items : ItemRename(i)
    \/ \E i \in Items : ItemExcept(i)
    \/ \E i \in Items : ItemReport(i)
    \/ \E i \in Items : ItemCallback(i)
    \/ \E i \in Items : ItemProgressArgs(i)
    \/ \E i \in Items : ItemProgressEmit(i)

SpecD == InitD /\ [][NextD]_vars

\* the MainWindow with the runs it starts: a run delivers its finished
\* signal or, once cancelled, may never do so
InitC ==
    /\ InitQueue /\ InitHistory /\ InitClients /\ InitCatalog /\ InitNoDownload
    /\ InitController /\ InitNoCall /\ InitOthers
    /\ InitPoolWith(DeadSite, 1, 1)

NextC ==
    \/ ClickAnalyze
    \/ ReturnPressed
    \/ \E r \in RunIds, data \in {"empty", "some"} : OnAnalysisDone(r, data)
    \/ \E sel \in BOOLEAN : SelectionChanged(sel)
    \/ ClickDownload
    \/ \E d \in RunIds : OnDownloadDone(d)
    \/ CancelTask

SpecC == InitC /\ [][NextC]_vars

\* a crawl that is not cancelled delivers pool_finished, and every download
\* delivers finished; the user need not do anything
SpecCLive ==
    /\ SpecC
    /\ WF_vars(\E r \in RunIds, data \in {"empty", "some"} :
                  crawls[r] = "running" /\ OnAnalysisDone(r, data))
    /\ WF_vars(\E d \in RunIds : OnDownloadDone(d))

\* the run's thread and the pool's threads keep running; the user need not
\* cancel
SpecDLive == SpecD /\ WF_vars(NextD /\ is_cancelled' = is_cancelled)

\* Downloader(output_dir).download(resource, is_cancelled=...): a call on a
\* new resource, for every server, disk and earlier content of the directory
Servers ==
    [response : {"ok", "http_error", "down"}, content_length : ContentLengths,
     chunks : 0..MaxChunks, drop_at : 0..MaxChunks]

InitK ==
    /\ InitQueue /\ InitHistory /\ InitClients /\ InitCatalog /\ InitNoDownload
    /\ InitController /\ InitOthers
    /\ InitPoolWith(DeadSite, 1, 1)
    /\ server \in Servers
    /\ disk_free \in FreeSpaces
    /\ cancel_at \in 0..MaxChunks
    /\ cd_pc = "call"
    /\ cd_files \in [{OutputPath, TempFile} -> {"none", "old"}]
    /\ downloaded_size = 0
    /\ resource = NewResource
    /\ cd_ret = "none"

NextK ==
    \/ DownloadGet
    \/ DownloadSize
    \/ DownloadOpen
    \/ DownloadChunk
    \/ DownloadClose
    \/ DownloadRename
    \/ DownloadFinally

SpecK == InitK /\ [][NextK]_vars

\* a JSON response, its body decoding or not
JsonPage(ok) ==
    [content_type |-> "json", json_ok |-> ok, blocks |-> << >>, n_quotes |-> 0,
     article |-> FALSE, media |-> << >>]

\* an HTML page of n quote elements of len characters each: inside a wrapper
\* div of class wclass or directly in the body, the quote elements being divs
\* (and so candidate blocks) or not
QuotePage(n, wrapped, wclass, len, qdiv, art, med) ==
    [content_type |-> "html", json_ok |-> FALSE,
     blocks |-> (IF wrapped
                 THEN <<Block(IF wclass = "content" THEN 1 ELSE 0,
                              IF wclass = "sidebar" THEN 1 ELSE 0,
                              n * len, 1..n)>>
                 ELSE << >>)
                \o (IF qdiv THEN [q \in 1..n |-> Block(0, 0, len, {q})]
                    ELSE << >>),
     n_quotes |-> n, article |-> art, media |-> med]

\* what the extractors of videos and images return on the main content,
\* after Resource.__post_init__ (models.py:77-89)
MediaLists ==
    {<< >>, <<Resource(21, "image", ".jpg")>>, <<Resource(22, "video", ".mp4")>>,
     <<Resource(23, "audio", ".mp3")>>, <<Resource(24, "m3u8", ".m3u8")>>,
     <<Resource(25, "unknown", ".pdf")>>, <<Resource(26, "unknown", ".zip")>>,
     <<Resource(21, "image", ".jpg"), Resource(27, "unknown", "")>>}

Pages ==
    {JsonPage(ok) : ok \in BOOLEAN}
    \cup {QuotePage(n, wr, wc, len, qd, art, med) :
             n \in 0..MaxQuotes, wr \in BOOLEAN,
             wc \in {"plain", "content", "sidebar"}, len \in {20, 100, 600},
             qd \in BOOLEAN, art \in BOOLEAN, med \in MediaLists}

InitP ==
    /\ InitQueue /\ InitHistory /\ InitClients /\ InitCatalog /\ InitNoDownload
    /\ InitController /\ InitNoCall /\ InitNoGet /\ InitRest
    /\ InitPoolWith(DeadSite, 1, 1)
    /\ page \in Pages
    /\ pa_pc = "parse"
    /\ delivered = << >>
    /\ pa_idx = 0

NextP ==
    \/ PaParse
    \/ PaCategorize
    \/ PaCategorized

SpecP == InitP /\ [][NextP]_vars

\* NetworkManager(max_retries, rotate_ua_per_request).get(url, rotate_ua): a
\* call, for every outcome of the attempts it may make
Outcomes == {"ok", "http_error", "transport_error"}

InitN ==
    /\ InitQueue /\ InitHistory /\ InitClients /\ InitCatalog /\ InitNoDownload
    /\ InitController /\ InitNoCall /\ InitNoParse /\ InitRest
    /\ InitPoolWith(DeadSite, 1, 1)
    /\ nm \in [max_retries : 0..MaxRetriesBound,
               rotate_ua_per_request : BOOLEAN,
               rotate_ua : {"None", "True", "False"},
               outcomes : [1..2 -> Outcomes]]
    /\ nm_pc = "call"
    /\ attempts = << >>
    /\ rotations = 0
    /\ nm_ret = "pending"

NextN ==
    \/ NmHeaders
    \/ NmFirst
    \/ NmRetry
    \/ NmGiveUp

SpecN == InitN /\ [][NextN]_vars

\* a CrawlQueue(maxsize) with maxsize > 0 and its client threads
InitB ==
    /\ InitQueue /\ InitHistory /\ InitClients /\ InitCatalog /\ InitNoDownload
    /\ InitController /\ InitNoCall /\ InitNoParse /\ InitNoGet
    /\ InitPoolWith(DeadSite, 1, 1)
    /\ maxsize \in 1..MaxMaxsize
    /\ conns = [c \in Callers |-> NoConn]

NextB ==
    \/ \E c \in Clients, u \in QUrls, p \in Priorities :
          CPutRejected(c, CrawlTask(u, 1, p, 0)) /\ UNCHANGED cxvars
    \/ \E c \in Clients, u \in QUrls, p \in Priorities :
          CPutAdmit(c, CrawlTask(u, 1, p, 0)) /\ UNCHANGED cxvars
    \/ \E c \in Clients : BPutEnqueue(c) /\ UNCHANGED cxvars
    \/ \E c \in Clients : BPutFull(c) /\ UNCHANGED cxvars
    \/ \E c \in Clients : CPutCount(c) /\ UNCHANGED cxvars
    \/ \E c \in Clients : CGet(c) /\ UNCHANGED cxvars
    \/ \E c \in Clients, ok \in BOOLEAN : CTaskDoneStats(c, ok) /\ UNCHANGED cxvars
    \/ \E c \in Clients : CTaskDoneQueue(c) /\ UNCHANGED cxvars

SpecB == InitB /\ [][NextB]_vars

\* a DatabaseManager on an empty database with concurrent callers of
\* add_resource
ArResources == {r \in DbResources : r.url # 0}

InitG ==
    /\ InitQueue /\ InitHistory /\ InitClients /\ InitCatalog /\ InitNoDownload
    /\ InitController /\ InitNoCall /\ InitOthers
    /\ InitPoolWith(DeadSite, 1, 1)

NextG ==
    \/ \E c \in Callers, t \in DbTaskIds, r \in ArResources : ArSelect(c, t, r)
    \/ \E c \in Callers : ArExists(c)
    \/ \E c \in Callers : ArInsert(c)

SpecG == InitG /\ [][NextG]_vars

---------------------------------------------------------------------------
\* Properties of CrawlQueue (checked under SpecQ)

InQueue(u) == {i \in 1..Len(queue) : queue[i].url = u}
Admitting(u) == {c \in Clients : cpc[c] = "put_enqueue" /\ ctask[c].url = u}
Holding(u) == {c \in Clients : cpc[c] = "holding" /\ ctask[c].url = u}
Processing == {c \in Clients : cpc[c] \in {"holding", "done_queue"}}

\* C1: within one queue lifetime (until clear is called) every URL is
\* enqueued by exactly one put: no URL is accepted twice, a put is rejected
\* only for a URL some put was admitted for, an accepted URL stays in the
\* visited set also after get has dequeued it, and the queue never holds a
\* URL twice.
C1_PutAcceptedOncePerUrl ==
    ~cleared =>
        \A u \in QUrls :
            /\ accepted[u] <= 1
            /\ accepted[u] = 1 => u \in visited_urls
            /\ u \in rejected => accepted[u] + Cardinality(Admitting(u)) = 1
            /\ u \in visited_urls <=> accepted[u] + Cardinality(Admitting(u)) = 1
            /\ Cardinality(InQueue(u)) + Cardinality(Holding(u)) <= accepted[u]

\* a URL was accepted, dequeued and reported done, and a later put of it
\* was rejected
C1_Witness ==
    \E u \in QUrls :
        /\ ~cleared
        /\ accepted[u] = 1 /\ u \in rejected
        /\ InQueue(u) = {} /\ Holding(u) = {}
        /\ total_completed + total_failed = 1 /\ unfinished_tasks = 0

\* C2: the unfinished counter equals the tasks queued plus the tasks popped
\* and not yet reported with task_done.
C2_UnfinishedAccounting ==
    unfinished_tasks = Len(queue) + Cardinality(Processing)

\* a get by client c
GetStep(c) == cpc[c] = "idle" /\ cpc'[c] = "holding"

\* C6: get returns a task whose priority number is minimal among the tasks
\* queued at that moment.
C6_GetReturnsMinPriority ==
    [][\A c \in Clients :
          GetStep(c) =>
              \A i \in 1..Len(queue) : ctask'[c].priority <= queue[i].priority]_vars

\* a client holds the task a get chose from a queue of several priorities
C6_Witness ==
    \E c \in Clients :
        /\ cpc[c] = "holding"
        /\ Cardinality(last_get_prios) >= 2
        /\ \A p \in last_get_prios : ctask[c].priority <= p

\* C7: among queued tasks of equal priority get returns the one put first.
C7_FifoWithinPriority ==
    [][\A c \in Clients :
          GetStep(c) =>
              \E k \in 1..Len(queue) :
                  /\ queue[k] = ctask'[c]
                  /\ \A i \in 1..(k - 1) : queue[i].priority # queue[k].priority]_vars

---------------------------------------------------------------------------
\* Properties of a crawl (checked under Spec)

Range(f) == {f[i] : i \in DOMAIN f}
SeedTask == CrawlTask(site.seed, 1, HIGH, 0)

\* the step in which _finalize_pool runs
FinalizeStep == ~pool_finished_emitted /\ pool_finished_emitted'

\* C3: when the pool finalizes, every accepted task has been reported:
\* total_queued = completed + failed, and the unfinished counter is 0.
C3_StatsAtFinalize ==
    [][FinalizeStep =>
          /\ total_queued = total_completed + total_failed
          /\ unfinished_tasks = 0]_vars

\* a crawl of several pages, one of them failed, has finalized
C3_Witness ==
    /\ pool_finished_emitted /\ finished_count = 1
    /\ total_queued >= 3 /\ total_failed >= 1 /\ total_completed >= 2

\* nothing is queued, in flight or waiting to be handled
Quiescent ==
    /\ queue = << >> /\ unfinished_tasks = 0
    /\ events = << >> /\ mpc = "idle"
    /\ \A w \in Workers : wpc[w] \in {"loop", "get", "stopped"}

\* C4: a started crawl that is not cancelled completes: once all its work
\* is done and every notification is handled, finished was emitted exactly
\* once and the Task row is scanned.
C4_CrawlCompletes ==
    (phase = "crawling" /\ ~cancel_called /\ Quiescent) =>
        /\ finished_count = 1
        /\ db_task.status = "scanned"

\* C5: the seed is enqueued at depth 1; a link is enqueued at depth d + 1
\* only from a page of depth d < max_depth; with max_depth = 1 nothing but
\* the seed is enqueued; with max_depth = 2 every distinct link of the seed is
\* enqueued exactly once, at depth 2.
C5_DepthGate ==
    /\ phase = "crawling" => SeedTask \in put_log
    /\ \A t \in put_log :
          /\ t.depth >= 1 /\ t.depth <= max_depth
          /\ t.depth = 1 => t = SeedTask
          /\ t.depth > 1 =>
                \E p \in put_log :
                    /\ p.url = t.referer /\ t.depth = p.depth + 1
                    /\ p.depth < max_depth
                    /\ t.url \in Range(ParseLinks(p.url))
    /\ max_depth = 1 => put_log \subseteq {SeedTask}
    /\ (max_depth = 2 /\ site.seed \in handled) =>
          \A u \in Range(ParseLinks(site.seed)) \ {site.seed} :
              /\ accepted[u] = 1
              /\ \E t \in put_log : t.url = u /\ t.depth = 2 /\ t.referer = site.seed
    /\ \A u \in PageUrls : accepted[u] <= 1

\* with max_depth = 2 the seed's two links were enqueued, and a page of
\* depth 2 that has links of its own was handled without enqueuing them
C5_Witness ==
    /\ max_depth = 2 /\ site.seed \in handled
    /\ Cardinality(put_log) = 3
    /\ \E u \in handled \ {site.seed} :
          \E v \in Range(ParseLinks(u)) : accepted[v] = 0

\* the pages a crawl of the site to max_depth visits, level by level
LinksOf(S) == UNION {Range(ParseLinks(p)) : p \in S}
RECURSIVE Level(_), SeenUpTo(_)
Level(d) == IF d = 1 THEN {site.seed} ELSE LinksOf(Level(d - 1)) \ SeenUpTo(d - 1)
SeenUpTo(d) == IF d = 1 THEN {site.seed} ELSE SeenUpTo(d - 1) \cup Level(d)
CrawledPages == SeenUpTo(max_depth)

Occurrences(seq, r) == Cardinality({i \in DOMAIN seq : seq[i] = r})
RECURSIVE PagesOccurrences(_, _)
PagesOccurrences(S, r) ==
    IF S = {} THEN 0
    ELSE LET p == CHOOSE q \in S : TRUE
         IN  Occurrences(ParseResources(p), r) + PagesOccurrences(S \ {p}, r)
SiteResources == UNION {Range(site.resources[u]) : u \in PageUrls}

\* C8: the ScrapedData a crawl emits does not depend on the number of
\* workers or on the schedule: each category holds, in some order, exactly
\* the resources of the pages within max_depth of the seed.
C8_SameDataForAnyWorkers ==
    pool_finished_emitted =>
        /\ \A r \in SiteResources :
              CategoryOf(r) # "none" =>
                  Occurrences(finished_data[CategoryOf(r)], r)
                      = PagesOccurrences(CrawledPages, r)
        /\ \A c \in Categories :
              \A r \in Range(finished_data[c]) :
                  r \in SiteResources /\ CategoryOf(r) = c

\* C9: within each category list of ScrapedData the URLs are pairwise
\* distinct.
C9_CategoryUrlsDistinct ==
    \A c \in Categories :
        \A i, j \in DOMAIN scraped_data[c] :
            i # j => scraped_data[c][i].url # scraped_data[c][j].url

\* every worker has left its loop and the pool's thread has nothing to handle
AllStopped ==
    /\ \A w \in Workers : wpc[w] = "stopped"
    /\ events = << >> /\ mpc = "idle"

\* C10: after a cancel during a crawl the Task row ends cancelled, with
\* finished_at set.
C10_CancelMarksTask ==
    (cancel_called /\ AllStopped) =>
        /\ db_task.status = "cancelled"
        /\ db_task.finished_at # 0

\* C11: cancel sets the stop flag of every worker, and a task that was
\* queued and not yet popped when cancel was called is never popped and
\* processed afterwards.
C11_CancelDropsQueued ==
    cancel_called =>
        /\ \A w \in Workers : ~is_running[w]
        /\ \A w \in Workers : wtask[w] \notin queued_at_cancel

---------------------------------------------------------------------------
\* Properties of the worker list (checked under SpecW)

\* C12: the number of workers is between 1 and 20: num_workers is clamped at
\* construction and a started pool has 1..20 workers; the worker list grows
\* only in a tick that read a queue size above 50 while it had fewer than 20
\* workers, by at most 5 and never beyond 20; it never shrinks.
C12_WorkerCountBounded ==
    /\ [](/\ num_workers >= 1 /\ num_workers <= WorkerLimit
          /\ len_workers <= WorkerLimit
          /\ phase = "crawling" => len_workers >= 1)
    /\ [][/\ len_workers' >= len_workers
          /\ (phase = "crawling" /\ len_workers' > len_workers) =>
                /\ tick_q_size' > ScaleUpQueueSize
                /\ len_workers < WorkerLimit
                /\ len_workers' <= len_workers + ScaleUpStep]_vars

\* a tick added fewer than 5 workers because the list reached 20
C12_Witness ==
    /\ phase = "crawling" /\ tick_q_size > ScaleUpQueueSize
    /\ len_workers = WorkerLimit
    /\ num_workers < WorkerLimit /\ num_workers + ScaleUpStep > WorkerLimit

---------------------------------------------------------------------------
\* Properties of the catalog

\* C13: when a crawl has emitted finished, every resource of the emitted
\* ScrapedData is a row of the resources table under the crawl's task.
C13_ResourcesPersistedAtFinish ==
    pool_finished_emitted =>
        \A c \in Categories :
            \A r \in Range(finished_data[c]) :
                ResourceExists(db_resources, TaskId, r.url)

\* a step that is a call of the catalog API
DbCallStep(op) == db_calls' # db_calls /\ last_call'.op = op

\* C16: add_resource for a (task, non-empty url) that already has a row
\* returns -1 and changes nothing in the catalog.
C16_AddResourceIdempotent ==
    [][(/\ DbCallStep("add_resource")
        /\ last_call'.url # 0
        /\ \E i \in 1..Len(db_resources) :
              /\ db_resources[i].task_id = last_call'.task_id
              /\ db_resources[i].url = last_call'.url)
       => /\ last_call'.ret = -1
          /\ db_resources' = db_resources
          /\ db_task' = db_task]_vars

\* a second add_resource returned -1 for a row that a download had marked
\* completed in between, and the row is as it was: still the only one
C16_Witness ==
    /\ last_call.op = "add_resource" /\ last_call.ret = -1 /\ last_call.url # 0
    /\ \E i \in 1..Len(db_resources) :
          /\ db_resources[i].task_id = last_call.task_id
          /\ db_resources[i].url = last_call.url
          /\ db_resources[i].status = "completed"
          /\ \A j \in 1..Len(db_resources) :
                (db_resources[j].task_id = last_call.task_id
                 /\ db_resources[j].url = last_call.url) => j = i

\* C17: repeating update_task_status(id, s, finished=true) right after the
\* same call leaves the status and finished_at that get_task_details returns
\* as the first call left them.
C17_RepeatedStatusUpdate ==
    [][(/\ DbCallStep("update_task_status")
        /\ last_call.op = "update_task_status"
        /\ last_call'.task_id = last_call.task_id
        /\ last_call'.status = last_call.status
        /\ last_call.finished /\ last_call'.finished)
       => GetTaskDetails(last_call.task_id)' = GetTaskDetails(last_call.task_id)]_vars
---------------------------------------------------------------------------
\* Properties of the Task rows

TerminalStatuses == {"scanned", "completed", "failed", "cancelled"}
TaskRows == {db_task, dl_task}

\* C14: a Task row whose status is scanned, completed, failed or cancelled
\* has finished_at set, and not earlier than created_at
C14_TerminalHasFinishedAt ==
    \A row \in TaskRows :
        row.status \in TerminalStatuses =>
            /\ row.finished_at # 0
            /\ row.finished_at >= row.created_at

C14_Witness ==
    /\ dl_task.status = "cancelled"
    /\ dl_task.finished_at > dl_task.created_at
    /\ \E i \in Items : items[i].pc = "done"

\* the row is created (running; start_crawl writes scanning along with it),
\* then moves on
StatusAdvance(old, new) ==
    \/ new = old
    \/ old = "none" /\ new \in {"running", "scanning"}
    \/ old = "running" /\ new = "scanning"
    \/ old \in {"running", "scanning"} /\ new \in TerminalStatuses

\* C15: the status of a Task row only advances, from running (or scanning)
\* to one terminal status, and no step changes a terminal status
C15_StatusOnlyAdvances ==
    [][/\ StatusAdvance(db_task.status, db_task'.status)
       /\ StatusAdvance(dl_task.status, dl_task'.status)]_vars

C15_Witness ==
    /\ dpc = "done"
    /\ dl_task.status = "completed"
    /\ Len(dl_finished) = 1
    /\ success_count = 2

---------------------------------------------------------------------------
\* Properties of a download item (checked under SpecD)

\* run has left its retry loop
LoopLeft(i) == items[i].pc \in {"report", "callback", "done"}
\* the transfer of the item fails whenever it is tried
TransferAlwaysFails(i) ==
    /\ ~batch[i].content
    /\ batch[i].net \in {"down", "drop"}
    /\ batch[i].disk = "ok"

DiskAlwaysFull(i) == ~batch[i].content /\ batch[i].disk = "full"
\* the catalog row of the item
RowOf(i) ==
    CHOOSE row \in Range(db_resources) :
        row.task_id = DlTaskId /\ row.url = batch[i].url

\* C19: an item that fails the disk-space pre-flight check is not retried:
\* it is reported failed after its single attempt, without a wait, and the
\* other items of the batch are not failed by it
C19_DiskFailureNotRetried ==
    \A i \in Items : DiskAlwaysFull(i) =>
        /\ items[i].tries <= 1
        /\ items[i].waits = << >>
        /\ LoopLeft(i) => ~items[i].success
        /\ \A j \in Items \ {i} :
              (batch[j].net = "ok" /\ batch[j].disk = "ok" /\ items[j].pc = "done")
                  => items[j].success

\* the derived filename of the item was in the directory when the run began,
\* with the size the server reports
CachedAtStart(i) ==
    /\ ~batch[i].content
    /\ batch[i].head = "ok"
    /\ old_files[Path(batch[i].name, 0)] # NoFile
    /\ old_files[Path(batch[i].name, 0)].size = batch[i].size

\* C20: an item whose derived filename exists in the output directory with
\* the size the HEAD request reports makes no body request, is recorded
\* completed with the error "Skipped (cached)", and the file stays as it was
C20_CachedSkip ==
    \A i \in Items : (CachedAtStart(i) /\ items[i].pc = "done") =>
        /\ items[i].gets = 0
        /\ RowOf(i).status = "completed"
        /\ RowOf(i).error_msg = SkippedCached
        /\ files[Path(batch[i].name, 0)] = old_files[Path(batch[i].name, 0)]

\* the item went through its GET and rename: success that is not the skip
StreamedOk(i) ==
    /\ ~batch[i].content
    /\ items[i].success
    /\ items[i].error_msg # SkippedCached

\* C21: once an item has finished, no ".tmp" sibling of its target is left,
\* and the target of an item that succeeded by streaming exists and holds a
\* whole body
C21_NoTempLeftWholeFile ==
    \A i \in Items : (items[i].pc = "done" /\ ~batch[i].content) =>
        /\ ~Exists(TempPath(items[i].filepath))
        /\ StreamedOk(i) =>
              /\ Exists(items[i].filepath)
              /\ files[items[i].filepath].whole

---------------------------------------------------------------------------
\* Properties of a download run (checked under SpecD)

Succeeded == {i \in Items : items[i].success}

\* C22: in a run that is not cancelled, finished(s, n) is emitted once with
\* n the number of selected resources and s <= n; when the run went through
\* its batch every item was attempted, a failed item has a failed row with
\* an error, and s is the number of items that succeeded
C22_BatchSurvivesItemFailure ==
    (dpc = "done" /\ ~is_cancelled) =>
        /\ Len(dl_finished) = 1
        /\ dl_finished[1][2] = Len(batch)
        /\ dl_finished[1][1] <= dl_finished[1][2]
        /\ dl_task.status = "completed" =>
              /\ \A i \in Items : items[i].pc = "done" /\ items[i].tries >= 1
              /\ \A i \in Items \ Succeeded :
                    RowOf(i).status = "failed" /\ RowOf(i).error_msg # ErrNone
              /\ dl_finished[1][1] = Cardinality(Succeeded)

C22_Witness ==
    /\ dpc = "done" /\ ~is_cancelled
    /\ Len(batch) = 2
    /\ ~items[1].success /\ items[2].success
    /\ dl_finished = << <<1, 2>> >>

\* C23: the progress(done, total) events of a run are monotonic: done never
\* decreases from one emitted event to the next, and done <= total
C23_ProgressMonotonic ==
    /\ \A k \in 1..Len(dl_progress) : dl_progress[k][1] <= dl_progress[k][2]
    /\ \A k \in 1..(Len(dl_progress) - 1) :
          dl_progress[k][1] <= dl_progress[k + 1][1]

\* the run has ended as a cancelled one
CancelledEnd ==
    /\ dpc = "done"
    /\ Len(dl_finished) = 1
    /\ dl_finished[1][1] >= 0
    /\ dl_finished[1][1] <= dl_finished[1][2]
    /\ dl_finished[1][2] = Len(batch)
    /\ dl_task.status = "cancelled"
    /\ dl_task.finished_at # 0

NotBegun(i) == items[i].pc \in {"new", "queued", "dropped"}

\* C25: once cancel has returned, no item that had not begun running is
\* started
C25_CancelDrainsUnstarted ==
    [][\A i \in Items : (is_cancelled /\ NotBegun(i)) => NotBegun(i)']_vars

\* C26: targets are unique in the output directory: no write of an item
\* lands on a final or ".tmp" path that holds a file older than the run or
\* a file written by another item of the batch
C26_TargetsUnique ==
    [][\A p \in AllPaths :
          (files'[p] # files[p] /\ files'[p] # NoFile) =>
              files[p].by \in {-1, files'[p].by}]_vars

---------------------------------------------------------------------------
\* Properties of the controller (checked under SpecC)

\* C27: the controller never has two crawls active at the same time, nor
\* two downloads
C27_OneRunOfAKind ==
    /\ Cardinality(Active(crawls)) <= 1
    /\ Cardinality(Active(downloads)) <= 1

\* a crawl was started and has not delivered pool_finished
CrawlPending == \E r \in RunIds : crawls[r] \in {"running", "cancelled"}
\* the widgets that start a crawl accept input
CanStartCrawl == enabled["analyze_btn"] \/ enabled["url_input"]

\* C28: every crawl returns the controller to Idle: after a crawl was
\* started, whether it completes or is cancelled, a state is reached in
\* which a new crawl can be started
C28_ControllerReturnsToIdle == CrawlPending ~> CanStartCrawl

---------------------------------------------------------------------------
\* Properties of cancel

---------------------------------------------------------------------------
\* Properties of Downloader.download (checked under SpecK)

\* assertIn(text, resource.error_message) (tests/test_stability.py:73)
Contains(msg, text) == \E k \in 1..Len(msg) : msg[k] = text

\* the response is a success and carries a content-length header that is a
\* number
Declared == server.response = "ok" /\ server.content_length >= 0

\* the free space is known and below the declared length plus the reserve
LowSpace ==
    /\ Declared
    /\ disk_free # UsageRaises
    /\ disk_free < server.content_length + Reserve

\* the response is a success and its whole body arrives, the call not
\* cancelled before the last chunk
TransferOk ==
    /\ server.response = "ok"
    /\ server.drop_at = 0 \/ server.drop_at > server.chunks
    /\ cancel_at = 0 \/ cancel_at > server.chunks

\* the call failed on the space check and left nothing of its own
FailedOnSpace ==
    /\ cd_ret = "false"
    /\ resource.status = "failed"
    /\ Contains(resource.error_message, InsufficientDiskSpace)
    /\ cd_files[OutputPath] \in {"none", "old"}
    /\ cd_files[TempFile] = "none"

\* the call succeeded and the file at local_path exists
Completed ==
    /\ cd_ret = "true"
    /\ resource.status = "completed"
    /\ resource.local_path = OutputPath
    /\ cd_files[resource.local_path] # "none"

Refused ==
    /\ server.response = "ok"
    /\ server.content_length > 0
    /\ disk_free # UsageRaises
    /\ disk_free < server.content_length + Reserve

---------------------------------------------------------------------------
\* Properties of a page whose extraction fails (checked under Spec)

\* the fetch returned None or the extraction raised
ExtractionFails(u) == site.outcome[u] # "ok"

\* C31: a page whose extraction fails does not abort the crawl: the worker
\* reports task_done with success for it, the pool takes no resource and no
\* link from it, and the worker stops after it only when it was told to stop
C31_FailedPageCountsAsSuccess ==
    /\ [][\A w \in Workers :
            (/\ wpc[w] = "done_stats" /\ wpc'[w] = "done_queue"
             /\ ExtractionFails(wtask[w].url))
            => /\ total_completed' = total_completed + 1
               /\ total_failed' = total_failed]_vars
    /\ [][(/\ events # << >> /\ events' = Tail(events)
           /\ ExtractionFails(Head(events).url))
          => scraped_data' = scraped_data /\ mlinks' = << >>]_vars
    /\ [][\A w \in Workers :
            (wpc[w] = "done_queue" /\ wpc'[w] = "stopped") => ~is_running[w]]_vars

---------------------------------------------------------------------------
\* Properties of the classification (checked under SpecP)

\* the list the claim gives a resource, "none" when it is dropped
ListByType(res) ==
    CASE res.resource_type = "image" -> "images"
      [] res.resource_type = "video" -> "videos"
      [] res.resource_type = "audio" -> "audios"
      [] res.resource_type = "m3u8" -> "m3u8_streams"
      [] res.resource_type \in {"text", "json_data", "rich_text"} -> "documents"
      [] OTHER -> IF res.file_extension \in DocExtensions
                  THEN "documents" ELSE "none"

OfType(list, ty) == {k \in 1..Len(list) : list[k].resource_type = ty}

\* C32: every delivered resource is appended to the one list of its type and
\* to no other; a JSON page that decodes ends as exactly one json entry of
\* documents, and a page of N quote elements as N rich_text entries of
\* documents
C32_ClassifiedByType ==
    /\ [][pa_idx' = pa_idx + 1 =>
             \A c \in Categories :
                scraped_data'[c] =
                   IF c = ListByType(delivered[pa_idx + 1])
                   THEN Append(scraped_data[c], delivered[pa_idx + 1])
                   ELSE scraped_data[c]]_vars
    /\ [](pa_pc = "links" /\ page.content_type = "json" /\ page.json_ok =>
             /\ Len(scraped_data["documents"]) = 1
             /\ Cardinality(OfType(scraped_data["documents"], "json_data")) = 1)
    /\ [](pa_pc = "links" /\ page.content_type = "html" =>
             Cardinality(OfType(scraped_data["documents"], "rich_text"))
                = page.n_quotes)

---------------------------------------------------------------------------
\* Properties of NetworkManager.get (checked under SpecN)

RetryAllowed == should_rotate /\ nm.max_retries > 0

---------------------------------------------------------------------------
\* Completion and the notifications still waiting (checked under Spec)

\* a task_completed notification a worker has emitted and the pool has not
\* taken yet
PendingCompleted == {k \in 1..Len(events) : events[k].kind = "completed"}

\* C34: no premature completion: when the pool has finalized and emitted
\* finished, no task_completed notification of a processed task is still
\* waiting, and no task_completed handler starts afterwards
C34_NoPrematureCompletion ==
    /\ [](pool_finished_emitted => PendingCompleted = {})
    /\ [][pool_finished_emitted =>
             ~(/\ events # << >> /\ Head(events).kind = "completed"
               /\ events' = Tail(events))]_vars

\* the workers that hold a popped task whose task_done has not been made
HoldingTask == {w \in WorkerIds : wtask[w] # NoTask}

\* C35: every task a worker popped gets exactly one task_done from that
\* worker: a worker that is back at its loop, at the get or stopped holds no
\* task, and the queue's count of outstanding task_done calls is the number of
\* queued tasks plus the number of tasks held by workers (none missing, none
\* made twice), also for a task popped by a worker whose stop flag is set
C35_ExactlyOneTaskDone ==
    /\ \A w \in WorkerIds :
          wpc[w] \in {"absent", "loop", "get", "stopped"} => wtask[w] = NoTask
    /\ \A w \in WorkerIds :
          wpc[w] \in {"got", "done_stats", "done_queue"} => wtask[w] # NoTask
    /\ unfinished_tasks = Len(queue) + Cardinality(HoldingTask)

\* a worker popped a task, found its stop flag set, processed the task,
\* reported it and left its loop
C35_Witness ==
    \E w \in WorkerIds :
        /\ wbreak[w] /\ wpc[w] = "stopped" /\ wtask[w] = NoTask
        /\ total_completed + total_failed >= 1

\* stop() has been called on worker w, which has been started
StopCalled(w) == wpc[w] # "absent" /\ ~is_running[w]

\* C36: after stop() a worker's loop ends and the worker emits finished,
\* whether the queue is empty or not; a task whose processing starts after
\* stop() is the worker's last one (the loop breaks after it), so at most one
\* further task is processed
C36_StopTerminates ==
    /\ \A w \in WorkerIds : StopCalled(w) ~> wpc[w] = "stopped"
    /\ [][\A w \in WorkerIds :
            (StopCalled(w) /\ wpc[w] = "got" /\ wpc'[w] # "got") => wbreak'[w]]_vars
    /\ [](\A w \in WorkerIds :
            wbreak[w] => wpc[w] \in {"done_stats", "done_queue", "stopped"})

\* a stopped worker has left its loop after one further task while tasks
\* are still queued
C36_Witness ==
    \E w \in WorkerIds :
        /\ StopCalled(w) /\ wpc[w] = "stopped" /\ wbreak[w] /\ queue # << >>

\* C37: in a crawl (the queue is never cleared) the counters get_stats
\* reads satisfy completed + failed <= total_queued in every state, for
\* every interleaving of a put with get and task_done of other threads
C37_DoneAtMostQueued ==
    ~cleared => total_completed + total_failed <= total_queued

\* C38: a put that returns False because the bounded queue is full leaves
\* the queue's state as it was before the call: its URL is not in the
\* visited set (a later put of it can be admitted), total_queued and the
\* queued entries are unchanged
C38_FullPutLeavesNoTrace ==
    [][\A c \in Clients :
          (cpc[c] = "put_enqueue" /\ cpc'[c] = "idle") =>
              /\ ~(ctask[c].url \in visited_urls')
              /\ total_queued' = total_queued
              /\ queue' = queue]_vars

\* the rows of the resources table that carry the pair (task_id, url)
RowsOf(task_id, url) ==
    {i \in 1..Len(db_resources) :
        db_resources[i].task_id = task_id /\ db_resources[i].url = url}

\* C40: the catalog never holds two rows with the same (task_id, url), also
\* when two callers of add_resource, each on its own connection, interleave
\* their existence check and their insert
C40_NoDuplicateRows ==
    \A i \in 1..Len(db_resources) :
        Cardinality(RowsOf(db_resources[i].task_id, db_resources[i].url)) = 1

\* the batch's resources have distinct non-empty URLs
DistinctUrls ==
    /\ \A i \in Items : batch[i].url # 0
    /\ \A i, j \in Items : i # j => batch[i].url # batch[j].url

\* the rows of the run's task with status completed
CompletedRows ==
    {k \in 1..Len(db_resources) :
        db_resources[k].task_id = DlTaskId /\ db_resources[k].status = "completed"}

\* C39: at the end of a download run over resources with distinct non-empty
\* URLs, cancelled or not, the task's downloaded_items is the number of its
\* resource rows with status completed, and so is the s of finished(s, n)
C39_CountsAgreeWithRows ==
    (dpc = "done" /\ DistinctUrls /\ Len(dl_finished) = 1) =>
        /\ dl_task.downloaded_items = Cardinality(CompletedRows)
        /\ dl_finished[1][1] = Cardinality(CompletedRows)


=============================================================================
